---------------------------- MODULE Spec2Model ----------------------------
(***************************************************************************)
(* Model of the Dominion Energy refresh coordinator                        *)
(* (custom_components/dominion_energy/coordinator.py): the refresh cycle   *)
(* _async_update_data and the statistics reconciler _insert_statistics,    *)
(* _backfill_statistics and _update_statistics; the token callback, the    *)
(* client set-up and the automatic re-authentication; and the sensors'     *)
(* native_value (sensor.py).                                               *)
(*                                                                         *)
(* Representation.                                                         *)
(*   date      a day ordinal; day 0 is 1 January of year 0, every year has *)
(*             365 days (leap days are not modelled).                      *)
(*   datetime  minutes since the start of day 0; an interval reading       *)
(*             carries a naive local wall-clock time, a persisted point a  *)
(*             UTC time.  The local zone is a fixed whole-hour offset tz   *)
(*             (no daylight-saving transitions).                           *)
(*   kWh       a natural number of consumption units (the code uses        *)
(*             floats; the sums modelled here are exact).                  *)
(*   store     the recorder's rows for the series id, keyed by start.      *)
(*             async_add_external_statistics is modelled as taking effect  *)
(*             at once (the recorder applies it before the next tick).     *)
(*   money     a rate is a whole number of mills (thousandths of a dollar)  *)
(*             per kWh, a cost a whole number of cents; round(x, 2) rounds  *)
(*             the exact product to the nearest cent, ties to even (the     *)
(*             code rounds the binary float product).                      *)
(*   tokens    the n-th access and refresh token the utility issued for the *)
(*             account are <<"access", n>> and <<"refresh", n>>; pair 0 is  *)
(*             the one stored when the entry was set up.                   *)
(*   None      an absent optional value (no client, no data, no latest     *)
(*             interval, no forecast, no sensor value) is the empty set, a *)
(*             present one the set of that value.                          *)
(* Spec is the cycle as the reconciler sees it, with the credentials and   *)
(* the client held fixed; CoordinatorSpec adds the entry, the client, the  *)
(* coordinator's data and restarts, over fewer upstreams.                  *)
(* The dompower client is external: a call either returns the upstream     *)
(* readings of the requested dates or raises one of four error classes,    *)
(* which are siblings in the library (none is a subclass of another).      *)
(***************************************************************************)
EXTENDS Integers, Sequences, FiniteSets, TLC

\* ------------------------------------------------------------- bounds

\* The first value of date.today() (31 = 1 February).
FirstToday == 31
\* How many midnights may pass.
MaxDays == 2
\* The largest consumption of one upstream reading.
MaxCons == 1
\* The local zones tried: UTC-TzWest and UTC+TzEast, in hours.
TzWest == 5
TzEast == 2
\* How many token pairs the utility issues after the one of the setup flow
\* (by rotation inside the client or by a login of the authenticator).
MaxTokens == 2
\* How many years of values of date.today() the calendar claims try.
DateYears == 1
\* How many accounts with a meter the customer may have.
MaxAccounts == 2
\* How many two-factor targets the utility may offer.
MaxTargets == 1

\* ---------------------------------------------------------- constants

BACKFILL_DAYS == 7

\* The cost modes.
COST_MODE_FIXED == "fixed"
COST_MODE_TOU == "time_of_use"
COST_MODE_API == "api_estimate"

\* The default rates, in mills (thousandths of a dollar) per kWh:
\* 0.12, 0.15 and 0.08 $/kWh.
DEFAULT_FIXED_RATE == 120
DEFAULT_PEAK_RATE == 150
DEFAULT_OFF_PEAK_RATE == 80
\* The default peak window: 2 PM to 7 PM.
DEFAULT_PEAK_START_HOUR == 14
DEFAULT_PEAK_END_HOUR == 19

\* ------------------------------------------------------ dates and times

MinutesPerHour == 60
MinutesPerDay == 1440

\* datetime(day, hour, minute) as minutes since day 0.
At(day, hour, minute) == day * MinutesPerDay + hour * MinutesPerHour + minute

\* datetime.date()
DateOf(ts) == ts \div MinutesPerDay

\* Mutant: the timestamp is used as the bucket key as it is.
HourStartNotTruncated(ts) == ts

\* datetime.replace(minute=0, second=0, microsecond=0)
HourStart(ts) == ts - (ts % MinutesPerHour)

\* dt_util.as_utc of a naive datetime: it is read in the default (local) zone.
AsUtc(naive, zone) == naive - zone * MinutesPerHour

\* Mutant: the UTC time is read as if it were local.
AsLocalNoConversion(utc, zone) == utc

\* datetime.astimezone(local_tz) of a UTC datetime.
AsLocal(utc, zone) == utc + zone * MinutesPerHour

DaysBefore == <<0, 31, 59, 90, 120, 151, 181, 212, 243, 273, 304, 334>>

\* date.month
MonthOf(d) ==
    LET doy == d % 365
    IN  CHOOSE m \in 1..12 :
            /\ DaysBefore[m] <= doy
            /\ (m = 12 \/ doy < DaysBefore[m + 1])

\* date.replace(day=1)
ReplaceDay1(d) == (d \div 365) * 365 + DaysBefore[MonthOf(d)]

\* Mutant: the month start is always day 1 of today's month.
MonthStartOfToday(t) == ReplaceDay1(t)

\* The month start chosen by _async_update_data for the given today.
MonthStart(t) ==
    IF MonthOf(t - 1) # MonthOf(t) THEN ReplaceDay1(t - 1) ELSE ReplaceDay1(t)


\* ------------------------------------------------------ the upstream API

\* The times at which the utility may hold a reading: one before the first
\* backfill window, two in the last hour of the first yesterday, one in the
\* first hour of the first today, one on the day after.
Slots ==
    { At(FirstToday - BACKFILL_DAYS - 1, 23, 30),
      At(FirstToday - 1, 23, 0),
      At(FirstToday - 1, 23, 30),
      At(FirstToday, 0, 30),
      At(FirstToday + 1, 12, 0) }

Absent == 0 - 1

\* How a call of the client ends: it returns, or raises one of the errors
\* _async_update_data handles.
Outcomes ==
    {"ok", "TokenExpiredError", "InvalidAuthError", "CannotConnectError", "ApiError"}

\* A set of readings as a list in ascending timestamp order.
RECURSIVE SortedIntervals(_)
SortedIntervals(S) ==
    IF S = {} THEN <<>>
    ELSE LET first == CHOOSE x \in S : \A y \in S : x.timestamp <= y.timestamp
         IN  <<first>> \o SortedIntervals(S \ {first})

\* client.async_get_interval_usage(start_date, end_date) when it succeeds.
GetIntervalUsage(up, start_date, end_date) ==
    SortedIntervals({r \in up : /\ start_date <= DateOf(r.timestamp)
                                /\ DateOf(r.timestamp) <= end_date})

\* ------------------------------------------------ the recorder's store

\* Mutant: the last row is looked up in the coordinator's memory, which
\* holds none.
GetLastStatisticsFromMemory(st) == {}

\* get_last_statistics(hass, 1, stat_id, True, {"sum"}): the row with the
\* latest start, as a list of at most one row.
GetLastStatistics(st) ==
    IF st = {} THEN {}
    ELSE {CHOOSE p \in st : \A q \in st : q.start <= p.start}

Range(seq) == {seq[i] : i \in 1..Len(seq)}

Last(seq) == seq[Len(seq)]

\* async_add_external_statistics: a row whose start is already stored is
\* replaced, the others are added.
AddExternalStatistics(st, statistics) ==
    {p \in st : \A q \in Range(statistics) : q.start # p.start} \cup Range(statistics)

\* ------------------------------------------------------- the reconciler

\* hourly_data after the loop over the first n intervals.
RECURSIVE HourlyData(_, _)
HourlyData(intervals, n) ==
    IF n = 0 THEN [k \in {} |-> 0]
    ELSE LET prev == HourlyData(intervals, n - 1)
             hour_start == HourStart(intervals[n].timestamp)
             base == IF hour_start \in DOMAIN prev THEN prev[hour_start] ELSE 0
         IN  [k \in (DOMAIN prev) \cup {hour_start} |->
                 IF k = hour_start THEN base + intervals[n].consumption ELSE prev[k]]

\* sorted(hourly_data.keys())
RECURSIVE SortedKeys(_)
SortedKeys(S) ==
    IF S = {} THEN <<>>
    ELSE LET first == CHOOSE x \in S : \A y \in S : x <= y
         IN  <<first>> \o SortedKeys(S \ {first})

\* consumption_statistics after the loop over the first n sorted hours,
\* the running sum starting at sum0.
RECURSIVE BuildStatistics(_, _, _, _, _)
BuildStatistics(hourly_data, keys, n, sum0, zone) ==
    IF n = 0 THEN <<>>
    ELSE LET prev == BuildStatistics(hourly_data, keys, n - 1, sum0, zone)
             before == IF n = 1 THEN sum0 ELSE prev[n - 1].sum
             consumption == hourly_data[keys[n]]
         IN  Append(prev, [start |-> AsUtc(keys[n], zone),
                           state |-> consumption,
                           sum   |-> before + consumption])

\* The list of StatisticData built from a fetch result.
ConsumptionStatistics(intervals, sum0, zone) ==
    LET hourly_data == HourlyData(intervals, Len(intervals))
        keys == SortedKeys(DOMAIN hourly_data)
    IN  BuildStatistics(hourly_data, keys, Len(keys), sum0, zone)

\* Mutant: the window is counted back from its end date.
BackfillStartFromEnd(t) == (t - 1) - BACKFILL_DAYS

\* The window requested by _backfill_statistics.
BackfillStart(t) == t - BACKFILL_DAYS
BackfillEnd(t) == t - 1

\* last_stat_date: the local calendar date of the last persisted row.
LastStatDate(last, zone) == DateOf(AsLocal(last.start, zone))

\* Mutant: the series counts as up to date only past the data date.
UpToDateStrict(last, data_date, zone) == DateOf(AsLocal(last.start, zone)) > data_date

\* _update_statistics: the check "already up to date".
UpToDate(last, data_date, zone) == LastStatDate(last, zone) >= data_date

\* Mutant: the gap starts on the last covered date itself.
UpdateStartOnLastDate(last, zone) == DateOf(AsLocal(last.start, zone))

\* start_date of the gap fetched by _update_statistics.
UpdateStart(last, zone) == LastStatDate(last, zone) + 1

\* Mutant: the running sum restarts at zero.
CurrentSumFromZero(last) == 0

\* current_sum before the loop: the cumulative sum of the last persisted row.
CurrentSum(last) == last.sum

\* _update_statistics when its fetch succeeds: the list it persists.
UpdateBatch(up, last, data_date, zone) ==
    ConsumptionStatistics(GetIntervalUsage(up, UpdateStart(last, zone), data_date),
                          CurrentSum(last), zone)

\* The store after _update_statistics has run with a successful fetch.
UpdateStatistics(st, up, data_date, zone) ==
    LET last == CHOOSE p \in GetLastStatistics(st) : TRUE
    IN  IF UpToDate(last, data_date, zone) THEN st
        ELSE AddExternalStatistics(st, UpdateBatch(up, last, data_date, zone))

\* The store after _insert_statistics has run with a successful fetch.
InsertStatistics(st, up, data_date, t, zone) ==
    IF GetLastStatistics(st) = {}
    THEN AddExternalStatistics(st,
            ConsumptionStatistics(GetIntervalUsage(up, BackfillStart(t), BackfillEnd(t)),
                                  0, zone))
    ELSE UpdateStatistics(st, up, data_date, zone)


\* ------------------------------------------------------------ the state

VARIABLES
    today,       \* date.today()
    tz,          \* the default time zone, hours east of UTC
    upstream,    \* the readings the utility holds
    store,       \* the recorder's rows of the series
    pc,          \* where the refresh cycle stands
    yesterday,   \* _async_update_data: yesterday, the data date
    calls,       \* the client calls of this run of _async_update_data
    last_stat,   \* _insert_statistics: last_stat.get(stat_id)
    window,      \* start_date, end_date of the reconciler's fetch
    intervals,   \* the reconciler's fetch result
    batch,       \* consumption_statistics handed to the recorder
    result,      \* how the cycle ended
    in_flight,   \* the refreshes entered and not yet ended
    skipped,     \* whether a tick fired and was skipped during the
                 \* refresh in flight
    entry,       \* config_entry.data: credentials, tokens, cookies
    client,      \* self._client: none, or the tokens the client holds
    issued,      \* how many token pairs the utility has issued since setup
    reauths,     \* calls of _async_attempt_reauth in this cycle
    logins,      \* calls of the authenticator's async_login in this cycle
    writes,      \* calls of async_add_external_statistics in this cycle
    locals,      \* _async_update_data: intervals, monthly_intervals,
                 \* bill_forecast, daily_cost, monthly_cost
    data,        \* coordinator.data: none, or the last FetchResult
    previous,    \* how the coordinator's previous cycle ended
    refreshed,   \* whether a refresh of this coordinator has returned data
    options,     \* config_entry.options: the pricing configuration
    write_modes, \* the cost modes in force at the statistics writes so far
    entries,     \* hass.config_entries: the data of the entries of the domain
    flow,        \* the config flow in progress: the handler's fields, the
                 \* form shown, the step about to run
    relogin      \* the entries whose coordinator awaits auth.async_login in
                 \* _async_attempt_reauth

\* The variables of the reconciler's view of the cycle.
core == <<today, tz, upstream, store, pc, yesterday, calls, last_stat, window,
          intervals, batch, result, in_flight, skipped>>

\* The coordinator's credentials, client, counters and data, and the
\* entries and config flow of the domain.
config == <<entries, flow, relogin>>

coord == <<entry, client, issued, reauths, logins, writes, locals, data,
           previous, refreshed, options, write_modes, config>>

vars == <<today, tz, upstream, store, pc, yesterday, calls, last_stat, window,
          intervals, batch, result, in_flight, skipped, entry, client, issued,
          reauths, logins,
          writes, locals, data, previous, refreshed, options, write_modes,
          entries, flow, relogin>>

NoDate == 0 - 1

\* The reconciler has requested no readings.
NoWindow == <<NoDate, NoDate>>

Call(site, start_date, end_date, outcome) ==
    [site |-> site, start |-> start_date, end |-> end_date, outcome |-> outcome]

\* The n-th token pair the utility issued for the account; pair 0 is the
\* one the setup flow stored.
AccessToken(n) == <<"access", n>>
RefreshToken(n) == <<"refresh", n>>

\* config_entry.data: whether a username and a password are stored (and not
\* empty), the tokens, and the authenticator's cookies (0: the cookies of
\* the setup flow, n: those exported with the n-th token pair).
ConfigEntryData(has_username, has_password) ==
    [username |-> has_username, password |-> has_password,
     access_token |-> AccessToken(0), refresh_token |-> RefreshToken(0),
     cookies |-> 0,
     account_number |-> 1, meter_number |-> 1, service_address |-> 1]

\* DompowerClient(session, access_token=..., refresh_token=...).
DompowerClient(access_token, refresh_token) ==
    [access_token |-> access_token, refresh_token |-> refresh_token]

\* config_entry.options: every key is absent ({}) or holds a value ({v}).
\* A new entry has no options.
Options(cost_mode, fixed_rate, peak_rate, off_peak_rate, peak_start, peak_end) ==
    [cost_mode |-> cost_mode, fixed_rate |-> fixed_rate, peak_rate |-> peak_rate,
     off_peak_rate |-> off_peak_rate, peak_start_hour |-> peak_start,
     peak_end_hour |-> peak_end]

NoOptions == Options({}, {}, {}, {}, {}, {})

\* The locals of _async_update_data before its first fetch is answered, and
\* once it has returned or raised.
NoLocals ==
    [intervals |-> <<>>, monthly_intervals |-> <<>>, bill_forecast |-> {},
     daily_cost |-> 0, monthly_cost |-> 0]

\* DominionEnergyConfigFlow.__init__: the fields of a new flow handler.  The
\* model adds the flow's source and entry, the step about to run with its
\* user input, the form shown and the result of the last step.  Absent
\* values are the empty set.
NoFlow ==
    [source |-> "none", entry_index |-> 0,
     pc |-> "none", input |-> {}, step_id |-> "none",
     result |-> "none", errors |-> "none",
     username |-> {}, password |-> {}, entered |-> FALSE, login_try |-> FALSE,
     access_token |-> {}, refresh_token |-> {}, cookies |-> {},
     authenticator |-> {}, tfa_targets |-> {}, selected_tfa_target |-> {},
     account_meter_options |-> {}, unique_id |-> {}]

\* No config flow is in progress and the domain has no entry.
NoConfigFlow ==
    /\ entries = <<>>
    /\ flow = NoFlow
    /\ relogin = {}

\* DominionEnergyCoordinator.__init__: no client, no data, nothing counted.
NewCoordinator ==
    /\ client = {}
    /\ issued = 0
    /\ reauths = 0
    /\ logins = 0
    /\ writes = 0
    /\ locals = NoLocals
    /\ data = {}
    /\ previous = "none"
    /\ refreshed = FALSE

Init ==
    /\ today = FirstToday
    /\ tz \in {0 - TzWest, TzEast}
    /\ upstream \in
        { { [timestamp |-> s, consumption |-> f[s]] : s \in {x \in Slots : f[x] # Absent} } :
            f \in [Slots -> {Absent} \cup (0..MaxCons)] }
    /\ store = {}
    /\ pc = "idle"
    /\ yesterday = FirstToday - 1
    /\ calls = <<>>
    /\ last_stat = {}
    /\ window = NoWindow
    /\ intervals = <<>>
    /\ batch = <<>>
    /\ result = "none"
    /\ in_flight = 0
    /\ skipped = FALSE
    /\ entry = ConfigEntryData(TRUE, TRUE)
    /\ NewCoordinator
    /\ options = NoOptions
    /\ write_modes = {}
    /\ NoConfigFlow

\* `except ApiError` in the reconciler and around the bill forecast.
CaughtAsApiError(err) == err = "ApiError"

\* _async_attempt_reauth: `if not username or not password: return False`.
HasCredentialsUsernameOnly(entry_data) == entry_data.username

HasCredentials(entry_data) == entry_data.username /\ entry_data.password

\* Mutant: a connectivity error starts the re-authentication too.
HandlerPcReauthOnConnect(err, entry_data) ==
    IF /\ err \in {"TokenExpiredError", "CannotConnectError"}
       /\ HasCredentials(entry_data)
    THEN "reauth" ELSE "idle"

\* Mutant: an error that is no token expiry is logged and the cycle goes on
\* to the statistics.
HandlerPcContinues(err, entry_data) ==
    IF err = "TokenExpiredError"
    THEN (IF HasCredentials(entry_data) THEN "reauth" ELSE "idle")
    ELSE "insert"

\* The except clauses of _async_update_data: where an error raised inside
\* the try block leads.  `except TokenExpiredError` enters
\* _async_attempt_reauth, which awaits the login when the entry holds a
\* username and a password and returns False at once when it does not, so
\* that ConfigEntryAuthFailed is raised in the same step.
HandlerPc(err, entry_data) ==
    IF err = "TokenExpiredError" /\ HasCredentials(entry_data)
    THEN "reauth" ELSE "idle"

HandlerResult(err, entry_data) ==
    CASE err = "TokenExpiredError" ->
            IF HasCredentials(entry_data) THEN "none" ELSE "auth_failed"
      [] err = "InvalidAuthError" -> "auth_failed"
      [] err = "CannotConnectError" -> "update_failed"
      [] err = "ApiError" -> "update_failed"

\* Mutant: the month to date is fetched on the first of the month too.
FetchesMonthAlways(month_start, y) == month_start <= y

\* `if month_start < yesterday`: the month to date is fetched apart.
FetchesMonth(month_start, y) == month_start < y

\* Midnight passes.
NextDay ==
    /\ today < FirstToday + MaxDays
    /\ today' = today + 1
    /\ UNCHANGED <<tz, upstream, store, pc, yesterday, calls, last_stat, window,
                   intervals, batch, result, in_flight, skipped>>

\* Mutant: a tick that fires during a refresh starts another.
TickSkippedNever(refreshes) == FALSE

\* The scheduling of the refreshes, which the coordinator inherits from
\* Home Assistant's DataUpdateCoordinator, after section 5 of the
\* specification: a tick that fires while a refresh is in flight is
\* skipped.
TickSkipped(refreshes) == refreshes > 0

\* A tick fires during a refresh and is skipped.
SkipTick ==
    /\ TickSkipped(in_flight)
    /\ skipped' = TRUE
    /\ UNCHANGED <<today, tz, upstream, store, pc, yesterday, calls, last_stat,
                   window, intervals, batch, result, in_flight>>

\* Mutant: the update is run again as a refresh of its own, beside the one
\* that awaited the login.
RetriedAsRefresh(refreshes) == refreshes + 1

\* `return await self._async_update_data()`: the update is run again
\* inside the refresh that awaited the login.
Retried(refreshes) == refreshes

\* A step of _async_update_data: the refresh has ended when the step has
\* returned or raised, and is in flight otherwise.
Continued ==
    /\ in_flight' = IF pc' = "idle" THEN in_flight - 1 ELSE in_flight
    /\ skipped' = (pc' # "idle" /\ skipped)

\* A scheduled tick enters _async_update_data: today, yesterday.
Tick ==
    /\ ~TickSkipped(in_flight)
    /\ in_flight' = in_flight + 1
    /\ skipped' = FALSE
    /\ pc' = "daily"
    /\ yesterday' = today - 1
    /\ calls' = <<>>
    /\ last_stat' = {}
    /\ window' = NoWindow
    /\ intervals' = <<>>
    /\ batch' = <<>>
    /\ result' = "none"
    /\ UNCHANGED <<today, tz, upstream, store>>

\* The fetch of yesterday's intervals.
FetchDaily ==
    /\ pc = "daily"
    /\ \E out \in Outcomes :
        /\ calls' = Append(calls, Call("daily", yesterday, yesterday, out))
        /\ pc' = IF out = "ok"
                 THEN (IF FetchesMonth(MonthStart(yesterday + 1), yesterday)
                       THEN "monthly" ELSE "forecast")
                 ELSE HandlerPc(out, entry)
        /\ result' = IF out = "ok" THEN result ELSE HandlerResult(out, entry)
    /\ Continued
    /\ UNCHANGED <<today, tz, upstream, store, yesterday, last_stat, window, intervals, batch>>

\* The fetch of the month-to-date intervals.
FetchMonthly ==
    /\ pc = "monthly"
    /\ \E out \in Outcomes :
        /\ calls' = Append(calls, Call("monthly", MonthStart(yesterday + 1), yesterday, out))
        /\ pc' = IF out = "ok" THEN "forecast" ELSE HandlerPc(out, entry)
        /\ result' = IF out = "ok" THEN result ELSE HandlerResult(out, entry)
    /\ Continued
    /\ UNCHANGED <<today, tz, upstream, store, yesterday, last_stat, window, intervals, batch>>

\* The fetch of the bill forecast: an ApiError leaves no forecast.
FetchForecast ==
    /\ pc = "forecast"
    /\ \E out \in Outcomes :
        /\ calls' = Append(calls, Call("forecast", NoDate, NoDate, out))
        /\ pc' = IF out = "ok" \/ CaughtAsApiError(out) THEN "insert" ELSE HandlerPc(out, entry)
        /\ result' = IF out = "ok" \/ CaughtAsApiError(out) THEN result ELSE HandlerResult(out, entry)
    /\ Continued
    /\ UNCHANGED <<today, tz, upstream, store, yesterday, last_stat, window, intervals, batch>>

\* _insert_statistics from the answer of get_last_statistics to the next
\* await: backfill or update is chosen and the readings are requested,
\* _backfill_statistics reading today again for its window;
\* _update_statistics returns at once when the series is up to date.
ReadLastStatistics ==
    /\ pc = "insert"
    /\ last_stat' = GetLastStatistics(store)
    /\ IF last_stat' = {}
       THEN /\ pc' = "backfill"
            /\ window' = <<BackfillStart(today), BackfillEnd(today)>>
            /\ result' = result
       ELSE LET last == CHOOSE p \in last_stat' : TRUE
            IN  IF UpToDate(last, yesterday, tz)
                THEN pc' = "idle" /\ window' = window /\ result' = "data"
                ELSE /\ pc' = "update"
                     /\ window' = <<UpdateStart(last, tz), yesterday>>
                     /\ result' = result
    /\ Continued
    /\ UNCHANGED <<today, tz, upstream, store, yesterday, calls, intervals, batch>>

\* Mutant: an empty fetch result fails the refresh.
ReconcilerResultEmptyFails(out, fetched, entry_data) ==
    IF out = "ok" /\ fetched = <<>> THEN "update_failed"
    ELSE IF out = "ok" \/ CaughtAsApiError(out) THEN "data" ELSE HandlerResult(out, entry_data)

\* How the cycle ends after the reconciler's fetch: the reconciler returns
\* (on an empty result too) and the cycle returns its data, unless the fetch
\* raised an error the reconciler does not catch.
ReconcilerResult(out, fetched, entry_data) ==
    IF out = "ok" \/ CaughtAsApiError(out) THEN "data" ELSE HandlerResult(out, entry_data)

\* Mutant: the first reading is kept when the fetch raises.
FetchedIntervalsPartial(out, fetched) ==
    IF out = "ok" \/ fetched = <<>> THEN fetched ELSE <<fetched[1]>>

\* The reconciler's intervals: the answer to its fetch; a fetch that raises
\* assigns nothing and the reconciler returns or is left.
FetchedIntervals(out, fetched) == IF out = "ok" THEN fetched ELSE <<>>

\* What the reconciler does with the answer to its fetch.
Reconcile(site, start_date, end_date, sum0) ==
    \E out \in Outcomes :
        /\ calls' = Append(calls, Call(site, start_date, end_date, out))
        /\ intervals' = FetchedIntervals(out,
                            GetIntervalUsage(upstream, start_date, end_date))
        /\ batch' = ConsumptionStatistics(intervals', sum0, tz)
        /\ store' = IF batch' = <<>> THEN store ELSE AddExternalStatistics(store, batch')
        /\ pc' = IF out = "ok" \/ CaughtAsApiError(out) THEN "idle" ELSE HandlerPc(out, entry)
        /\ result' = ReconcilerResult(out, intervals', entry)

\* _backfill_statistics from the answer to its fetch.
Backfill ==
    /\ pc = "backfill"
    /\ Reconcile("backfill", window[1], window[2], 0)
    /\ Continued
    /\ UNCHANGED <<today, tz, upstream, yesterday, last_stat, window>>

\* _update_statistics from the answer to its fetch.
Update ==
    /\ pc = "update"
    /\ LET last == CHOOSE p \in last_stat : TRUE
       IN  Reconcile("update", window[1], window[2], CurrentSum(last))
    /\ Continued
    /\ UNCHANGED <<today, tz, upstream, yesterday, last_stat, window>>

\* _async_attempt_reauth from the answer of the login it awaits after a
\* TokenExpiredError: on success the update is run again, otherwise
\* ConfigEntryAuthFailed.
AttemptReauth ==
    /\ pc = "reauth"
    /\ \E ok \in BOOLEAN :
        IF ok
        THEN /\ pc' = "daily"
             /\ yesterday' = today - 1
             /\ calls' = <<>>
             /\ last_stat' = {}
             /\ window' = NoWindow
             /\ intervals' = <<>>
             /\ batch' = <<>>
             /\ result' = "none"
             /\ in_flight' = Retried(in_flight)
             /\ skipped' = skipped
        ELSE /\ pc' = "idle"
             /\ result' = "auth_failed"
             /\ Continued
             /\ UNCHANGED <<yesterday, calls, last_stat, window, intervals, batch>>
    /\ UNCHANGED <<today, tz, upstream, store>>

\* options.get(key, default)
OptionsGet(value, default) ==
    IF value = {} THEN default ELSE CHOOSE v \in value : TRUE

\* async_add_external_statistics is called once, with the whole batch, when
\* the batch is not empty.
StatisticsWrite ==
    /\ writes' = IF batch' # <<>> THEN writes + 1 ELSE writes
    /\ write_modes' = IF batch' # <<>>
                      THEN write_modes \cup {OptionsGet(options.cost_mode, COST_MODE_API)}
                      ELSE write_modes

\* What a step that only counts the statistics writes leaves alone, and
\* what a step that only assigns the locals leaves alone.
beside_writes ==
    <<entry, client, issued, reauths, logins, locals, data, previous, refreshed,
      options, config>>

beside_locals ==
    <<entry, client, issued, logins, writes, data, previous, refreshed,
      options, write_modes, config>>

\* The cycle as the reconciler sees it: the credentials, the client and the
\* coordinator's data play no part and are held fixed.
Next ==
    \/ NextDay /\ UNCHANGED coord
    \/ Tick /\ writes' = 0 /\ UNCHANGED <<beside_writes, write_modes>>
    \/ FetchDaily /\ UNCHANGED coord
    \/ FetchMonthly /\ UNCHANGED coord
    \/ FetchForecast /\ UNCHANGED coord
    \/ ReadLastStatistics /\ UNCHANGED coord
    \/ Backfill /\ StatisticsWrite /\ UNCHANGED beside_writes
    \/ Update /\ StatisticsWrite /\ UNCHANGED beside_writes
    \/ AttemptReauth /\ UNCHANGED coord

Spec == Init /\ [][Next]_vars

\* The utility answers the call of the step.
Answered == Last(calls').outcome = "ok"

\* The cycles in which the utility answers every call, for the claims that
\* relate runs of the reconciler.
ReconcilerNext ==
    \/ NextDay /\ UNCHANGED coord
    \/ Tick /\ writes' = 0 /\ UNCHANGED <<beside_writes, write_modes>>
    \/ FetchDaily /\ Answered /\ UNCHANGED coord
    \/ FetchMonthly /\ Answered /\ UNCHANGED coord
    \/ FetchForecast /\ Answered /\ UNCHANGED coord
    \/ ReadLastStatistics /\ UNCHANGED coord
    \/ Backfill /\ Answered /\ StatisticsWrite /\ UNCHANGED beside_writes
    \/ Update /\ Answered /\ StatisticsWrite /\ UNCHANGED beside_writes

ReconcilerSpec == Init /\ [][ReconcilerNext]_vars


\* ------------------------------- credentials, client, data: the coordinator

\* _token_update_callback: the entry's data with the two tokens replaced.
TokenUpdateCallbackAccessOnly(entry_data, access_token, refresh_token) ==
    [entry_data EXCEPT !.access_token = access_token]

TokenUpdateCallback(entry_data, access_token, refresh_token) ==
    [entry_data EXCEPT !.access_token = access_token,
                       !.refresh_token = refresh_token]

\* _async_setup, reached from _async_update_data when there is no client:
\* the client is built from the tokens of the entry.
AsyncSetup(cl, entry_data) ==
    IF cl = {}
    THEN {DompowerClient(entry_data.access_token, entry_data.refresh_token)}
    ELSE cl

\* How auth.async_login ends: with tokens, or with one of the errors
\* _async_attempt_reauth catches ("Exception": any other error).
LoginOutcomes ==
    {"ok", "TFARequiredError", "InvalidCredentialsError", "CannotConnectError",
     "Exception"}

\* Mutant: the cookies are exported and stored although the login stopped
\* at the second factor.
ReauthDataStoresCookies(entry_data, login, n) ==
    IF login = "ok"
    THEN [entry_data EXCEPT !.access_token = AccessToken(n),
                            !.refresh_token = RefreshToken(n),
                            !.cookies = n]
    ELSE IF login = "TFARequiredError"
         THEN [entry_data EXCEPT !.cookies = n + 1]
         ELSE entry_data

\* _async_attempt_reauth: the entry's data after a login that obtained the
\* n-th token pair, or after a login that raised.
ReauthData(entry_data, login, n) ==
    IF login = "ok"
    THEN [entry_data EXCEPT !.access_token = AccessToken(n),
                            !.refresh_token = RefreshToken(n),
                            !.cookies = n]
    ELSE entry_data

\* sum(i.consumption for i in intervals)
RECURSIVE Total(_)
Total(readings) ==
    IF readings = <<>> THEN 0
    ELSE readings[1].consumption + Total(Tail(readings))

\* A bill forecast of the utility with the given derived rate, absent ({})
\* or {rate}: a last bill of 100 kWh charged at that rate (in cents), or
\* of no usage when there is no rate, and the current billing period.
BillForecastWith(derived_rate) ==
    [current_usage_kwh |-> 0, is_tou |-> FALSE, derived_rate |-> derived_rate,
     last_bill |-> IF derived_rate = {}
                   THEN [charges |-> 0, usage |-> 0]
                   ELSE [charges |-> 10 * (CHOOSE r \in derived_rate : TRUE),
                         usage |-> 100],
     current_period_start |-> FirstToday - 1,
     current_period_end |-> FirstToday + MaxDays]

\* Python floats are binary doubles.  A double is held exactly, as its
\* sign, a natural number below 2^54 and the power of two that multiplies
\* it; the number is held in limbs of 18 bits, the most significant first.
\* A result is rounded to 53 significant bits, a tie going to the even
\* neighbour.
LimbBits == 18

\* 2^n, calculated once.
PowerOfTwo ==
    LET RECURSIVE Doubled(_)
        Doubled(n) == IF n = 0 THEN 1 ELSE 2 * Doubled(n - 1)
    IN  [n \in 0..30 |-> Doubled(n)] @@ <<>>

\* The number of bits of the number of the limbs.
BitsOf(limbs) ==
    LET RECURSIVE BitLength(_)
        BitLength(n) == IF n = 0 THEN 0 ELSE 1 + BitLength(n \div 2)
        RECURSIVE LeadingZeros(_)
        LeadingZeros(n) ==
            IF n > Len(limbs) THEN Len(limbs)
            ELSE IF limbs[n] # 0 THEN n - 1
            ELSE LeadingZeros(n + 1)
        Bits(z) ==
            IF z = Len(limbs) THEN 0
            ELSE (Len(limbs) - z - 1) * LimbBits + BitLength(limbs[z + 1])
    IN  Bits(LeadingZeros(1))

\* The limbs of the number shifted right by s bits.
ShiftRight(limbs, s) ==
    LET Shifted(w, t) ==
            [i \in 1..(Len(limbs) - w) |->
                (limbs[i] \div PowerOfTwo[t])
                + (IF i = 1 THEN 0
                   ELSE (limbs[i - 1] % PowerOfTwo[t]) * PowerOfTwo[LimbBits - t])]
    IN  Shifted(s \div LimbBits, s % LimbBits)

\* A bit that a shift to the right by s bits shifts out is set.
Lost(limbs, s) ==
    LET LostBits(w, t) ==
            \/ \E i \in 1..Len(limbs) : i > Len(limbs) - w /\ limbs[i] # 0
            \/ Len(limbs) - w >= 1 /\ limbs[Len(limbs) - w] % PowerOfTwo[t] # 0
    IN  LostBits(s \div LimbBits, s % LimbBits)

\* The limbs, n of them: zero limbs are put before, or taken away.
Resized(limbs, n) ==
    [i \in 1..n |-> IF i + Len(limbs) - n >= 1 THEN limbs[i + Len(limbs) - n] ELSE 0]

\* The limbs of (the number of the first n limbs) x k + carry, k < 2^10.
RECURSIVE MulLimbs(_, _, _, _)
MulLimbs(limbs, n, k, carry) ==
    IF n = 0 THEN <<carry>>
    ELSE Append(MulLimbs(limbs, n - 1, k,
                         (limbs[n] * k + carry) \div PowerOfTwo[LimbBits]),
                (limbs[n] * k + carry) % PowerOfTwo[LimbBits])

\* The limbs of the sum of the numbers of the first n limbs of a and of b,
\* and carry.
RECURSIVE AddLimbs(_, _, _, _)
AddLimbs(a, b, n, carry) ==
    IF n = 0 THEN <<carry>>
    ELSE Append(AddLimbs(a, b, n - 1,
                         (a[n] + b[n] + carry) \div PowerOfTwo[LimbBits]),
                (a[n] + b[n] + carry) % PowerOfTwo[LimbBits])

\* The double nearest to the number limbs x 2^exp.  When the number has s
\* bits more than the 53 of a significand, q1 is the number without its
\* last s - 1 bits and q the number without its last s bits: the result
\* is q, or the next number when the bits cut are more than half of the
\* last place of q, or are half of it and q is odd.
RoundToDouble(negative, limbs, exp) ==
    LET Successor(q) == AddLimbs(q, [i \in 1..Len(q) |-> 0], Len(q), 1)
        HalfEven(q, half, more) ==
            IF half /\ (more \/ q[Len(q)] % 2 = 1) THEN Successor(q) ELSE q
        RoundedFrom(s, q1) ==
            [neg |-> negative,
             man |-> Resized(HalfEven(ShiftRight(q1, 1), q1[Len(q1)] % 2 = 1,
                                      Lost(limbs, s - 1)), 3),
             exp |-> exp + s]
        Rounded(s) ==
            IF s <= 0
            THEN [neg |-> negative, man |-> Resized(limbs, 3), exp |-> exp]
            ELSE RoundedFrom(s, ShiftRight(limbs, s - 1))
    IN  Rounded(BitsOf(limbs) - 53)

\* The float of a decimal amount given in thousandths (a rate in mills per
\* kWh is the float of dollars per kWh): the double nearest to it.
\* Quotient(r, n) is the binary expansion of r/1000, r < 1000, in n limbs
\* and a last limb that is 1 when a remainder is left.
Float(mills) ==
    LET RECURSIVE Quotient(_, _)
        Quotient(r, n) ==
            IF n = 0 THEN <<IF r = 0 THEN 0 ELSE 1>>
            ELSE <<(r * PowerOfTwo[LimbBits]) \div 1000>>
                 \o Quotient((r * PowerOfTwo[LimbBits]) % 1000, n - 1)
        FloatOf(negative, m) ==
            RoundToDouble(negative, <<m \div 1000>> \o Quotient(m % 1000, 4),
                          0 - 5 * LimbBits)
    IN  FloatOf(mills < 0, IF mills < 0 THEN 0 - mills ELSE mills)

\* consumption * rate, for a consumption of k whole kWh, which is a double.
Times(k, x) == RoundToDouble(x.neg, MulLimbs(x.man, 3, k, 0), x.exp)

\* cost + charge, for amounts that are not negative: the double nearest to
\* the sum of the two significands, shifted left to the lesser exponent e.
Plus(x, y) ==
    LET ShiftedLeft(limbs, w, t) ==
            [i \in 1..(Len(limbs) + 1 + w) |->
                IF i > Len(limbs) + 1 THEN 0
                ELSE (IF i = 1 THEN 0
                      ELSE (limbs[i - 1] % PowerOfTwo[LimbBits - t]) * PowerOfTwo[t])
                     + (IF i > Len(limbs) THEN 0
                        ELSE limbs[i] \div PowerOfTwo[LimbBits - t])]
        ShiftLeft(limbs, s) == ShiftedLeft(limbs, s \div LimbBits, s % LimbBits)
        Sum(a, b, n, e) ==
            RoundToDouble(FALSE, AddLimbs(Resized(a, n), Resized(b, n), n, 0), e)
        Aligned(e) ==
            Sum(ShiftLeft(x.man, x.exp - e), ShiftLeft(y.man, y.exp - e),
                4 + (IF x.exp - e > y.exp - e THEN x.exp - e ELSE y.exp - e)
                        \div LimbBits,
                e)
    IN  IF BitsOf(x.man) = 0 THEN y
        ELSE IF BitsOf(y.man) = 0 THEN x
        ELSE Aligned(IF x.exp < y.exp THEN x.exp ELSE y.exp)

\* The digits of 100 times the double x: the whole part, the first bit
\* after the point and whether a later bit is set.  p holds the limbs of
\* 100 times the significand; q1 is twice the whole part and that first
\* bit.
Hundredfold(x) ==
    LET RECURSIVE LimbsNat(_, _)
        LimbsNat(limbs, n) ==
            IF n = 0 THEN 0
            ELSE LimbsNat(limbs, n - 1) * PowerOfTwo[LimbBits] + limbs[n]
        Digits(q1, more) == [whole |-> q1 \div 2, half |-> q1 % 2, more |-> more]
        HundredfoldOf(p, exp) ==
            IF exp >= 0
            THEN [whole |-> LimbsNat(p, Len(p)) * PowerOfTwo[exp],
                  half |-> 0, more |-> FALSE]
            ELSE IF 0 - exp - 1 >= Len(p) * LimbBits
            THEN [whole |-> 0, half |-> 0, more |-> BitsOf(p) > 0]
            ELSE Digits(LimbsNat(ShiftRight(p, 0 - exp - 1),
                                 Len(p) - (0 - exp - 1) \div LimbBits),
                        Lost(p, 0 - exp - 1))
    IN  HundredfoldOf(MulLimbs(x.man, 3, 100, 0), x.exp)

\* Mutant: the amount is cut to whole cents.
Round2Truncates(x) ==
    LET WholeCent(h) == h.whole
        Signed(cents) == IF x.neg THEN 0 - cents ELSE cents
    IN  Signed(WholeCent(Hundredfold(x)))

\* round(x, 2), in cents: the multiple of 0.01 nearest to the double x, a
\* tie of the double going to the even cent.
Round2(x) ==
    LET NearestCent(h) ==
            IF h.half = 1 /\ (h.more \/ h.whole % 2 = 1) THEN h.whole + 1 ELSE h.whole
        Signed(cents) == IF x.neg THEN 0 - cents ELSE cents
    IN  Signed(NearestCent(Hundredfold(x)))

\* Mutant: the hour peak_end belongs to the peak window.
InPeakWindowInclusiveEnd(hour, peak_start, peak_end) ==
    peak_start <= hour /\ hour <= peak_end

\* Mutant: a window that does not start before its end wraps around
\* midnight.
InPeakWindowWraps(hour, peak_start, peak_end) ==
    IF peak_start < peak_end
    THEN peak_start <= hour /\ hour < peak_end
    ELSE peak_start <= hour \/ hour < peak_end

\* peak_start <= hour < peak_end
InPeakWindow(hour, peak_start, peak_end) ==
    peak_start <= hour /\ hour < peak_end

\* The charges of the loop of the time-of-use branch: the consumption of
\* each interval and the rate of its hour, in mills per kWh.
TimeOfUseCharges(readings, peak_start, peak_end, peak_rate, off_peak_rate) ==
    [i \in 1..Len(readings) |->
        [consumption |-> readings[i].consumption,
         rate |-> IF InPeakWindow((readings[i].timestamp % MinutesPerDay) \div MinutesPerHour,
                                  peak_start, peak_end)
                  THEN peak_rate ELSE off_peak_rate]]

\* The loop of the time-of-use branch, which starts from cost = 0.0 and
\* does cost += interval.consumption * rate, interval after interval, and
\* round(cost, 2) after it.
TimeOfUseCost(charges) ==
    LET RECURSIVE Accumulated(_, _)
        Accumulated(cost, n) ==
            IF n > Len(charges) THEN cost
            ELSE Accumulated(Plus(cost, Times(charges[n].consumption,
                                              Float(charges[n].rate))),
                             n + 1)
    IN  Round2(Accumulated(Float(0), 1))

\* round(total_kwh * rate, 2)
RateCost(total_kwh, rate) == Round2(Times(total_kwh, Float(rate)))

\* The costs of the rates of the specifications, in mills per kWh, for the
\* kWh of their interval lists, and those of their lists of one or two
\* charges at rates that are not negative, calculated once.
RateCosts ==
    [k \in 0..(4 * MaxCons),
     rate \in {0 - 50, 0, 5, 64, DEFAULT_OFF_PEAK_RATE, DEFAULT_FIXED_RATE, 125,
               128, DEFAULT_PEAK_RATE, 155} |-> RateCost(k, rate)] @@ <<>>

TimeOfUseCosts ==
    [charges \in UNION {[1..n -> [consumption : 0..MaxCons,
                                  rate : {0, 5, 64, DEFAULT_OFF_PEAK_RATE,
                                          DEFAULT_FIXED_RATE, 125, 128,
                                          DEFAULT_PEAK_RATE, 155}]] : n \in 0..2}
        |-> TimeOfUseCost(charges)] @@ <<>>

\* RateCost, read from the costs calculated once where these hold the
\* arguments.
RateCostOf(total_kwh, rate) ==
    IF <<total_kwh, rate>> \in DOMAIN RateCosts
    THEN RateCosts[total_kwh, rate]
    ELSE RateCost(total_kwh, rate)

\* _calculate_cost past the check for an empty list, in cents.
CostByMode(readings, bill_forecast, opts) ==
    LET total_kwh == Total(readings)
        cost_mode == OptionsGet(opts.cost_mode, COST_MODE_API)
        fixed_rate == OptionsGet(opts.fixed_rate, DEFAULT_FIXED_RATE)
    IN  IF cost_mode = COST_MODE_API /\ bill_forecast # {}
        THEN LET rate == (CHOOSE f \in bill_forecast : TRUE).derived_rate
             IN  IF rate # {} /\ rate # {0}
                 THEN RateCostOf(total_kwh, CHOOSE r \in rate : TRUE)
                 ELSE RateCostOf(total_kwh, fixed_rate)
        ELSE IF cost_mode = COST_MODE_TOU
        THEN LET charges == TimeOfUseCharges(readings,
                        OptionsGet(opts.peak_start_hour, DEFAULT_PEAK_START_HOUR),
                        OptionsGet(opts.peak_end_hour, DEFAULT_PEAK_END_HOUR),
                        OptionsGet(opts.peak_rate, DEFAULT_PEAK_RATE),
                        OptionsGet(opts.off_peak_rate, DEFAULT_OFF_PEAK_RATE))
             IN  IF charges \in DOMAIN TimeOfUseCosts
                 THEN TimeOfUseCosts[charges]
                 ELSE TimeOfUseCost(charges)
        ELSE RateCostOf(total_kwh, fixed_rate)

\* Mutant: an empty list has no cost (None).
CalculateCostNoneWhenEmpty(readings, bill_forecast, opts) ==
    IF readings = <<>> THEN 0 - 1 ELSE CostByMode(readings, bill_forecast, opts)

\* _calculate_cost, in cents.
CalculateCost(readings, bill_forecast, opts) ==
    IF readings = <<>> THEN 0 ELSE CostByMode(readings, bill_forecast, opts)

\* The DominionEnergyData that _async_update_data returns for the data date
\* y from its locals; an absent latest interval or bill forecast is the
\* empty set.
DominionEnergyData(l, y) ==
    [intervals |-> l.intervals,
     latest_interval |-> IF l.intervals = <<>> THEN {} ELSE {Last(l.intervals)},
     daily_total |-> Total(l.intervals),
     monthly_total |-> Total(l.monthly_intervals),
     daily_cost |-> l.daily_cost,
     monthly_cost |-> l.monthly_cost,
     bill_forecast |-> l.bill_forecast,
     data_date |-> y,
     month_start_date |-> MonthStart(y + 1),
     month_end_date |-> y]

\* The keys of SENSORS.
SensorKeys ==
    {"latest_interval_usage", "daily_usage", "monthly_usage", "daily_cost",
     "monthly_cost", "last_bill_charges", "last_bill_usage",
     "current_period_usage", "effective_rate", "billing_period_start",
     "billing_period_end", "is_time_of_use"}

\* data.bill_forecast when there is one.
TheForecast(d) == CHOOSE f \in d.bill_forecast : TRUE

\* value_fn of a sensor description; no value is the empty set.
ValueFn(key, d) ==
    CASE key = "latest_interval_usage" ->
            IF d.latest_interval = {} THEN {}
            ELSE {(CHOOSE i \in d.latest_interval : TRUE).consumption}
      [] key = "daily_usage" -> {d.daily_total}
      [] key = "monthly_usage" -> {d.monthly_total}
      [] key = "daily_cost" -> {d.daily_cost}
      [] key = "monthly_cost" -> {d.monthly_cost}
      [] key = "last_bill_charges" ->
            IF d.bill_forecast = {} THEN {} ELSE {TheForecast(d).last_bill.charges}
      [] key = "last_bill_usage" ->
            IF d.bill_forecast = {} THEN {} ELSE {TheForecast(d).last_bill.usage}
      [] key = "current_period_usage" ->
            IF d.bill_forecast = {} THEN {}
            ELSE {(CHOOSE f \in d.bill_forecast : TRUE).current_usage_kwh}
      [] key = "effective_rate" ->
            IF d.bill_forecast = {} THEN {} ELSE TheForecast(d).derived_rate
      [] key = "billing_period_start" ->
            IF d.bill_forecast = {} THEN {} ELSE {TheForecast(d).current_period_start}
      [] key = "billing_period_end" ->
            IF d.bill_forecast = {} THEN {} ELSE {TheForecast(d).current_period_end}
      [] key = "is_time_of_use" ->
            IF d.bill_forecast # {} /\ (CHOOSE f \in d.bill_forecast : TRUE).is_tou
            THEN {"Yes"} ELSE {"No"}

\* DominionEnergySensor.native_value.
NativeValue(key, coordinator_data) ==
    IF coordinator_data = {} THEN {}
    ELSE ValueFn(key, CHOOSE d \in coordinator_data : TRUE)

\* Mutant: a refresh that fails clears the coordinator's data.
RefreshedDataClearedOnFailure(coordinator_data, res, returned) ==
    IF res = "data" THEN {returned}
    ELSE IF res = "none" THEN coordinator_data ELSE {}

\* coordinator.data after a step of the refresh: the DataUpdateCoordinator
\* stores what _async_update_data returns and keeps its data when
\* _async_update_data raises.
RefreshedData(coordinator_data, res, returned) ==
    IF res = "data" THEN {returned} ELSE coordinator_data

\* `except TokenExpiredError` with an entry that lacks the username or the
\* password: _async_attempt_reauth is entered and returns False before any
\* await, in the step in which the call raised.
ReauthRefused ==
    reauths' = IF /\ Last(calls').outcome = "TokenExpiredError"
                  /\ ~HasCredentials(entry)
               THEN reauths + 1
               ELSE reauths

\* The client makes a call: before the call returns or raises the client
\* may have refreshed its tokens, which it reports through
\* _token_update_callback.
ClientCall ==
    /\ client # {}
    /\ \E rotated \in {FALSE} \cup {r \in {TRUE} : issued < MaxTokens} :
        IF rotated
        THEN /\ issued' = issued + 1
             /\ client' = {DompowerClient(AccessToken(issued'), RefreshToken(issued'))}
             /\ entry' = TokenUpdateCallback(entry, AccessToken(issued'),
                                             RefreshToken(issued'))
        ELSE UNCHANGED <<entry, client, issued>>
    /\ ReauthRefused
    /\ UNCHANGED <<logins, previous, options, config>>

\* The fetch of the data date is answered, lines 229-251: intervals, and
\* monthly_intervals too when the month to date is not fetched apart.
DailyFetched ==
    LET daily == GetIntervalUsage(upstream, yesterday, yesterday)
    IN  locals' = IF Last(calls').outcome = "ok"
                  THEN [locals EXCEPT
                           !.intervals = daily,
                           !.monthly_intervals =
                               IF FetchesMonth(MonthStart(yesterday + 1), yesterday)
                               THEN @ ELSE daily]
                  ELSE NoLocals

\* The fetch of the month to date is answered: lines 241-247.
MonthlyFetched ==
    locals' = IF Last(calls').outcome = "ok"
              THEN [locals EXCEPT !.monthly_intervals =
                        GetIntervalUsage(upstream, MonthStart(yesterday + 1), yesterday)]
              ELSE NoLocals

\* The fetch of the bill forecast is answered, with one of the forecasts
\* when it succeeds, and the costs are calculated at once, with the options
\* of that moment: lines 254-266.
CostsCalculatedFrom(forecasts) ==
    \E fetched \in forecasts :
        LET bill_forecast == IF Last(calls').outcome = "ok" THEN {fetched} ELSE {}
        IN  locals' =
                IF pc' = "insert"
                THEN [locals EXCEPT
                         !.bill_forecast = bill_forecast,
                         !.daily_cost =
                             CalculateCost(locals.intervals, bill_forecast, options),
                         !.monthly_cost =
                             CalculateCost(locals.monthly_intervals, bill_forecast,
                                           options)]
                ELSE NoLocals

\* The same in the coordinator's cycles.
CostsCalculated == CostsCalculatedFrom({BillForecastWith({DEFAULT_PEAK_RATE})})

\* The data the coordinator holds once the step has ended the cycle: the
\* DominionEnergyData built from the locals, lines 271-282.
ReturnData ==
    /\ data' = RefreshedData(data, result', DominionEnergyData(locals, yesterday))
    /\ refreshed' = (refreshed \/ result' = "data")
    /\ locals' = IF pc' \in {"backfill", "update"} THEN locals ELSE NoLocals

\* A tick of the update interval: _async_update_data is entered, the client
\* is set up if there is none.
TickStep ==
    /\ Tick
    /\ client' = AsyncSetup(client, entry)
    /\ reauths' = 0
    /\ logins' = 0
    /\ writes' = 0
    /\ previous' = result
    /\ locals' = NoLocals
    /\ UNCHANGED <<entry, issued, data, refreshed, options, write_modes, config>>

FetchDailyStep ==
    /\ FetchDaily
    /\ ClientCall
    /\ DailyFetched
    /\ UNCHANGED <<writes, data, refreshed, write_modes>>

FetchMonthlyStep ==
    /\ FetchMonthly
    /\ ClientCall
    /\ MonthlyFetched
    /\ UNCHANGED <<writes, data, refreshed, write_modes>>

FetchForecastStep ==
    /\ FetchForecast
    /\ ClientCall
    /\ CostsCalculated
    /\ UNCHANGED <<writes, data, refreshed, write_modes>>

ReadLastStatisticsStep ==
    /\ ReadLastStatistics
    /\ ReturnData
    /\ UNCHANGED <<entry, client, issued, reauths, logins, writes, previous,
                   options, write_modes, config>>

\* _async_attempt_reauth from the answer of auth.async_login, which it
\* awaits with the entry's username, password and cookies: a login that
\* succeeds stores the new tokens and cookies and replaces the client.
AttemptReauthStep ==
    /\ AttemptReauth
    /\ reauths' = reauths + 1
    /\ logins' = logins + 1
    /\ \E login \in LoginOutcomes :
        /\ login = "ok" => issued < MaxTokens
        /\ (pc' = "daily") <=> (login = "ok")
        /\ issued' = IF login = "ok" THEN issued + 1 ELSE issued
        /\ entry' = ReauthData(entry, login, issued')
        /\ client' = IF login = "ok"
                     THEN {DompowerClient(AccessToken(issued'), RefreshToken(issued'))}
                     ELSE client
    /\ locals' = NoLocals
    /\ UNCHANGED <<writes, data, previous, refreshed, options, write_modes, config>>

\* Home Assistant restarts or the entry is reloaded: async_setup_entry
\* builds a new coordinator and awaits its first refresh, which sets up
\* the client and requests the readings of the data date; a refresh in
\* flight is abandoned.  The entry and the recorder's rows persist.
Restart ==
    /\ pc' = "daily"
    /\ yesterday' = today - 1
    /\ calls' = <<>>
    /\ last_stat' = {}
    /\ window' = NoWindow
    /\ intervals' = <<>>
    /\ batch' = <<>>
    /\ result' = "none"
    /\ client' = AsyncSetup({}, entry)
    /\ locals' = NoLocals
    /\ data' = {}
    /\ reauths' = 0
    /\ logins' = 0
    /\ writes' = 0
    /\ previous' = "none"
    /\ refreshed' = FALSE
    /\ in_flight' = 1
    /\ skipped' = FALSE
    /\ UNCHANGED <<today, tz, upstream, store, entry, issued, options,
                   write_modes, config>>

\* The account of the coordinator's view: the utility holds no reading, a
\* reading in every slot, or a reading in every slot but those of the first
\* data date.
CoordinatorUpstreams ==
    { {[timestamp |-> s, consumption |-> MaxCons] : s \in S} :
        S \in {{}, Slots, {s \in Slots : DateOf(s) # FirstToday - 1}} }

CoordinatorInit ==
    /\ today = FirstToday
    /\ tz = 0 - TzWest
    /\ upstream \in CoordinatorUpstreams
    /\ store = {}
    /\ pc = "idle"
    /\ yesterday = FirstToday - 1
    /\ calls = <<>>
    /\ last_stat = {}
    /\ window = NoWindow
    /\ intervals = <<>>
    /\ batch = <<>>
    /\ result = "none"
    /\ in_flight = 0
    /\ skipped = FALSE
    /\ entry \in {ConfigEntryData(u, p) : u \in BOOLEAN, p \in BOOLEAN}
    /\ NewCoordinator
    /\ options = NoOptions
    /\ write_modes = {}
    /\ NoConfigFlow

CoordinatorNext ==
    \/ NextDay /\ UNCHANGED coord
    \/ TickStep
    \/ FetchDailyStep
    \/ FetchMonthlyStep
    \/ FetchForecastStep
    \/ ReadLastStatisticsStep
    \/ Backfill /\ ClientCall /\ StatisticsWrite /\ ReturnData
    \/ Update /\ ClientCall /\ StatisticsWrite /\ ReturnData
    \/ AttemptReauthStep
    \/ Restart

CoordinatorSpec == CoordinatorInit /\ [][CoordinatorNext]_vars

\* The coordinator's cycles with the ticks that fire during a refresh, for
\* an entry that holds a username and a password.
SchedulerInit ==
    /\ CoordinatorInit
    /\ entry = ConfigEntryData(TRUE, TRUE)

SchedulerNext ==
    \/ CoordinatorNext
    \/ SkipTick /\ UNCHANGED coord

SchedulerSpec == SchedulerInit /\ [][SchedulerNext]_vars

\* The first cycles of a new entry on any day of the calendar: the utility
\* holds one reading of one kWh at noon of every day.
CalendarInit ==
    /\ today \in 1..(DateYears * 365)
    /\ tz = 0 - TzWest
    /\ upstream =
        {[timestamp |-> At(d, 12, 0), consumption |-> 1] : d \in 0..(DateYears * 365)}
    /\ store = {}
    /\ pc = "idle"
    /\ yesterday = today - 1
    /\ calls = <<>>
    /\ last_stat = {}
    /\ window = NoWindow
    /\ intervals = <<>>
    /\ batch = <<>>
    /\ result = "none"
    /\ in_flight = 0
    /\ skipped = FALSE
    /\ entry = ConfigEntryData(FALSE, FALSE)
    /\ NewCoordinator
    /\ options = NoOptions
    /\ write_modes = {}
    /\ NoConfigFlow

\* The cycle up to the backfill, with a client that keeps its tokens.
CalendarNext ==
    \/ TickStep
    \/ FetchDaily /\ DailyFetched /\ ReauthRefused /\ UNCHANGED beside_locals
    \/ FetchMonthly /\ MonthlyFetched /\ ReauthRefused /\ UNCHANGED beside_locals
    \/ FetchForecast /\ CostsCalculated /\ ReauthRefused /\ UNCHANGED beside_locals
    \/ ReadLastStatisticsStep
    \/ /\ Backfill
       /\ StatisticsWrite
       /\ ReturnData
       /\ ReauthRefused
       /\ UNCHANGED <<entry, client, issued, logins, previous, options, config>>

CalendarSpec == CalendarInit /\ [][CalendarNext]_vars

\* The first refresh of an entry under the pricing options, the readings
\* and the bill forecasts below: _calculate_cost prices the readings of
\* the data date and of the month to date.

\* Mutant: a window may end at 24.
HoursThroughMidnight == 0..24

\* The hours of the day a peak window may start or end at:
\* vol.Range(min=0, max=23).
Hours == 0..23

\* The options the options flow stores hold all six keys.  Pricing options
\* with every peak window, peak and off-peak rates of 0.128 and 0.064.
WindowOptions ==
    {Options({COST_MODE_TOU}, {DEFAULT_FIXED_RATE}, {128}, {64}, {ps}, {pe}) :
        ps \in Hours, pe \in Hours}

\* Pricing options in every mode with the default window: a fixed rate of
\* zero, 0.005, 0.12, 0.125, 0.128 or 0.155, peak and off-peak rates zero
\* or the default.  One kWh at 0.005, 0.125 or 0.155 costs half a cent
\* more than a whole number of cents.
RateOptions ==
    {Options({m}, {fr}, {pr}, {opr},
             {DEFAULT_PEAK_START_HOUR}, {DEFAULT_PEAK_END_HOUR}) :
        m \in {COST_MODE_FIXED, COST_MODE_TOU, COST_MODE_API},
        fr \in {0, 5, DEFAULT_FIXED_RATE, 125, 128, 155},
        pr \in {0, DEFAULT_PEAK_RATE},
        opr \in {0, DEFAULT_OFF_PEAK_RATE}}

\* Time-of-use options with rates of 0.005 and 0.155 and a window that is
\* the default one, empty, or one that ends at 23.
HalfCentOptions ==
    {Options({COST_MODE_TOU}, {DEFAULT_FIXED_RATE}, {pr}, {opr}, {ps}, {pe}) :
        pr \in {5, 155}, opr \in {5, 155},
        ps \in {DEFAULT_PEAK_START_HOUR, DEFAULT_PEAK_END_HOUR},
        pe \in {DEFAULT_PEAK_END_HOUR, 23}}

\* The day of the refresh: the third of a month, so that the month to date
\* is fetched apart from the data date.
CostToday == FirstToday + 2

\* The options of an entry, never configured or stored by the options
\* flow, and the readings of the account.  Under the window options: one
\* of MaxCons kWh at a whole hour of the data date, whatever the hour, and
\* one at 19:30 of the data date.  Under the other options: none, or one
\* at midnight, at the first or the last hour of the default window or at
\* 23 and one at 19:30.
CostInit ==
    /\ today = CostToday
    /\ tz = 0 - TzWest
    /\ \/ /\ options \in WindowOptions
          /\ upstream \in
                {{[timestamp |-> At(CostToday - 1, h, 0), consumption |-> MaxCons],
                  [timestamp |-> At(CostToday - 1, 19, 30), consumption |-> MaxCons]} :
                    h \in Hours}
       \/ /\ options \in {NoOptions} \cup RateOptions \cup HalfCentOptions
          /\ upstream \in
                {{}} \cup
                {{[timestamp |-> At(CostToday - 1, h, 0), consumption |-> c],
                  [timestamp |-> At(CostToday - 1, 19, 30), consumption |-> MaxCons]} :
                    h \in {0, DEFAULT_PEAK_START_HOUR, DEFAULT_PEAK_END_HOUR - 1,
                           DEFAULT_PEAK_END_HOUR, 23},
                    c \in 0..MaxCons}
    /\ store = {}
    /\ pc = "idle"
    /\ yesterday = CostToday - 1
    /\ calls = <<>>
    /\ last_stat = {}
    /\ window = NoWindow
    /\ intervals = <<>>
    /\ batch = <<>>
    /\ result = "none"
    /\ in_flight = 0
    /\ skipped = FALSE
    /\ entry = ConfigEntryData(FALSE, FALSE)
    /\ NewCoordinator
    /\ write_modes = {}
    /\ NoConfigFlow

\* The first refresh of an entry with pricing options, with a client that
\* keeps its tokens and a utility that answers the requests for readings,
\* and the request for the bill forecast with a forecast or an ApiError.
\* The forecasts have a derived rate that is null, zero, 0.15 or -0.05 (a
\* last bill in credit).
CostNext ==
    \/ data = {} /\ TickStep
    \/ /\ FetchDaily
       /\ Answered
       /\ DailyFetched
       /\ ReauthRefused
       /\ UNCHANGED beside_locals
    \/ /\ FetchMonthly
       /\ Answered
       /\ MonthlyFetched
       /\ ReauthRefused
       /\ UNCHANGED beside_locals
    \/ /\ FetchForecast
       /\ Last(calls').outcome \in {"ok", "ApiError"}
       /\ CostsCalculatedFrom({BillForecastWith(r) :
                                 r \in {{}, {0}, {DEFAULT_PEAK_RATE}, {0 - 50}}})
       /\ ReauthRefused
       /\ UNCHANGED beside_locals
    \/ ReadLastStatisticsStep
    \/ /\ Backfill
       /\ Answered
       /\ StatisticsWrite
       /\ ReturnData
       /\ ReauthRefused
       /\ UNCHANGED <<entry, client, issued, logins, previous, options, config>>

CostSpec == CostInit /\ [][CostNext]_vars

\* The refresh cycles of an entry whose pricing options the user changes.

\* The options the options flow stores in each cost mode, with the default
\* rates and peak hours.
PricingOptions ==
    {Options({m}, {DEFAULT_FIXED_RATE}, {DEFAULT_PEAK_RATE}, {DEFAULT_OFF_PEAK_RATE},
             {DEFAULT_PEAK_START_HOUR}, {DEFAULT_PEAK_END_HOUR}) :
        m \in {COST_MODE_FIXED, COST_MODE_TOU, COST_MODE_API}}

\* Mutant: storing new options clears the persisted series for a
\* recomputation.
OptionsFlowStepClearsStatistics ==
    /\ \E user_input \in PricingOptions :
        /\ user_input # options
        /\ options' = user_input
    /\ store' = {}
    /\ UNCHANGED <<today, tz, upstream, pc, yesterday, calls, last_stat, window, intervals,
                   batch, result, in_flight, skipped, entry, client, issued, reauths, logins, writes,
                   locals, data, previous, refreshed, write_modes, config>>

\* DominionEnergyOptionsFlow.async_step_init with user input: the input
\* becomes the entry's options.  The integration registers no update
\* listener, so nothing else happens; a refresh may be in flight.
OptionsFlowStep ==
    /\ \E user_input \in PricingOptions :
        /\ user_input # options
        /\ options' = user_input
    /\ UNCHANGED <<core, entry, client, issued, reauths, logins, writes, locals, data,
                   previous, refreshed, write_modes, config>>

PricingInit ==
    /\ today = FirstToday
    /\ tz = 0 - TzWest
    /\ upstream \in CoordinatorUpstreams
    /\ store = {}
    /\ pc = "idle"
    /\ yesterday = FirstToday - 1
    /\ calls = <<>>
    /\ last_stat = {}
    /\ window = NoWindow
    /\ intervals = <<>>
    /\ batch = <<>>
    /\ result = "none"
    /\ in_flight = 0
    /\ skipped = FALSE
    /\ entry = ConfigEntryData(FALSE, FALSE)
    /\ NewCoordinator
    /\ options = NoOptions
    /\ write_modes = {}
    /\ NoConfigFlow

\* The cycle with a client that keeps its tokens, and the options flow.
PricingNext ==
    \/ NextDay /\ UNCHANGED coord
    \/ TickStep
    \/ FetchDaily /\ DailyFetched /\ ReauthRefused /\ UNCHANGED beside_locals
    \/ FetchMonthly /\ MonthlyFetched /\ ReauthRefused /\ UNCHANGED beside_locals
    \/ FetchForecast /\ CostsCalculated /\ ReauthRefused /\ UNCHANGED beside_locals
    \/ ReadLastStatisticsStep
    \/ /\ Backfill
       /\ StatisticsWrite
       /\ ReturnData
       /\ ReauthRefused
       /\ UNCHANGED <<entry, client, issued, logins, previous, options, config>>
    \/ /\ Update
       /\ StatisticsWrite
       /\ ReturnData
       /\ ReauthRefused
       /\ UNCHANGED <<entry, client, issued, logins, previous, options, config>>
    \/ OptionsFlowStep

PricingSpec == PricingInit /\ [][PricingNext]_vars

\* ------------------------------------------------------ the config flow

\* The value of a field that is present.
TheValue(field) == CHOOSE v \in field : TRUE

\* async_show_form(step_id=..., errors=...).
ShowForm(fl, step_id, errors) ==
    [fl EXCEPT !.pc = "form", !.input = {}, !.step_id = step_id,
               !.result = "form", !.errors = errors, !.login_try = FALSE]

\* async_abort(reason=...), or an AbortFlow that reaches the flow manager.
AbortResult(fl, reason) ==
    [fl EXCEPT !.pc = "done", !.input = {}, !.result = "abort", !.errors = reason,
               !.login_try = FALSE]

\* The handler is suspended at an await: pc names the awaited call and
\* input holds the handler's user_input.  login_try tells whether the
\* await is inside the try block of async_step_user or
\* async_step_reauth_confirm, in the handler itself or in a handler it
\* awaits: the handlers the flow manager calls with the input of a form
\* shown by another step are not.
Await(fl, call, user_input) == [fl EXCEPT !.pc = call, !.input = user_input]

\* GigyaAuthenticator(session): a new authenticator, on which no
\* credentials were submitted and no code was sent.  The targets the flow
\* still holds were not fetched from it.
NewAuthenticator(fl) ==
    [fl EXCEPT !.authenticator = {[tfa_required |-> FALSE, code_sent |-> FALSE]},
               !.tfa_targets = {[t EXCEPT !.fresh = FALSE] : t \in @},
               !.selected_tfa_target = {[t EXCEPT !.fresh = FALSE] : t \in @}]

\* The authenticator after async_submit_credentials reported that the
\* second factor is required.
TfaRequired(fl) ==
    [fl EXCEPT !.authenticator = {[a EXCEPT !.tfa_required = TRUE] : a \in @}]

\* The errors the except clauses of the login steps handle.
LoginErrors ==
    {"InvalidCredentialsError", "CannotConnectError", "GigyaError", "Exception"}

\* How async_submit_credentials and _async_complete_login end: they
\* return, async_submit_credentials with or without the request of a
\* second factor, or raise.
SubmitOutcomes == {"ok", "tfa_required"} \cup LoginErrors

\* The except clauses of the login steps.
LoginError(err) ==
    CASE err = "InvalidCredentialsError" -> "invalid_credentials"
      [] err = "CannotConnectError" -> "cannot_connect"
      [] OTHER -> "unknown"

\* new_data of _create_entry_from_selection.
NewData(fl, key) ==
    [username |-> TheValue(fl.username), password |-> TheValue(fl.password),
     access_token |-> TheValue(fl.access_token),
     refresh_token |-> TheValue(fl.refresh_token),
     cookies |-> TheValue(fl.cookies),
     account_number |-> key, meter_number |-> key, service_address |-> key]

\* An AbortFlow raised in _create_entry_from_selection: called from inside
\* the try block of async_step_discover_accounts it is caught by
\* `except Exception` and the user form is shown; otherwise it reaches the
\* flow manager, which aborts the flow.
AbortFlowRaised(fl, reason, in_try) ==
    IF in_try THEN ShowForm(fl, "user", "unknown") ELSE AbortResult(fl, reason)

\* The flow has ended with the given result.
Finished(fl, outcome) ==
    [fl EXCEPT !.pc = "done", !.input = {}, !.result = outcome, !.errors = "none",
               !.login_try = FALSE]

\* _create_entry_from_selection: _abort_if_unique_id_mismatch in a
\* reconfigure flow, _abort_if_unique_id_configured otherwise (an entry of
\* the domain has the unique id, which is its account number).
CreateEntryFromSelection(fl, key, in_try) ==
    LET fl1 == [fl EXCEPT !.unique_id = {key}]
    IN  IF fl.source = "reconfigure"
        THEN IF entries[fl.entry_index].account_number # key
             THEN /\ flow' = AbortFlowRaised(fl1, "unique_id_mismatch", in_try)
                  /\ entries' = entries
             ELSE /\ flow' = Finished(fl1, "update_entry")
                  /\ entries' = [entries EXCEPT ![fl.entry_index] = NewData(fl, key)]
        ELSE IF \E i \in DOMAIN entries : entries[i].account_number = key
             THEN /\ flow' = AbortFlowRaised(fl1, "already_configured", in_try)
                  /\ entries' = entries
             ELSE /\ flow' = Finished(fl1, "create_entry")
                  /\ entries' = Append(entries, NewData(fl, key))

\* What the steps of the flow leave alone, but for the tokens issued.
beside_config ==
    <<core, entry, client, reauths, logins, writes, locals, data, previous,
      refreshed, options, write_modes, relogin>>

\* A handler of the flow is suspended at an await.
Running ==
    flow.pc \in {"init_session", "submit_credentials", "complete_login",
                 "get_tfa_options", "send_tfa_code", "verify_tfa_code",
                 "get_customer_info"}

\* The handlers of the reauth flow stand for those of the setup flow.
IsReauth(fl) == fl.source = "reauth"

\* The step ids of the forms of the two families of handlers.
StepId(fl, step_id) ==
    IF ~IsReauth(fl) THEN step_id
    ELSE CASE step_id = "user" -> "reauth_confirm"
           [] step_id = "tfa_select" -> "reauth_tfa_select"
           [] step_id = "tfa_code" -> "reauth_tfa_code"

\* async_step_user up to its first await or its return: without user
\* input the form is shown; with it the credentials are kept, a new
\* authenticator is built and async_init_session is awaited.
AsyncStepUser(fl, user_input) ==
    IF user_input = {}
    THEN ShowForm(fl, "user", "none")
    ELSE Await([NewAuthenticator(fl) EXCEPT !.username = {TRUE},
                                           !.password = {TRUE},
                                           !.entered = TRUE,
                                           !.login_try = TRUE],
               "init_session", user_input)

\* async_step_reauth_confirm up to its first await or its return: without
\* user input the stored credentials are used when the entry has both;
\* with user input the entered ones; otherwise the form is shown.
AsyncStepReauthConfirm(fl, user_input, ents) ==
    LET reauth_entry == ents[fl.entry_index]
    IN  IF user_input = {} /\ reauth_entry.username /\ reauth_entry.password
        THEN Await([NewAuthenticator(fl) EXCEPT
                        !.username = {reauth_entry.username},
                        !.password = {reauth_entry.password},
                        !.entered = FALSE,
                        !.login_try = TRUE],
                   "init_session", user_input)
        ELSE IF user_input # {}
             THEN Await([NewAuthenticator(fl) EXCEPT !.username = {TRUE},
                                                    !.password = {TRUE},
                                                    !.entered = TRUE,
                                                    !.login_try = TRUE],
                        "init_session", user_input)
             ELSE ShowForm(fl, "reauth_confirm", "none")

\* The part of the target steps after the targets are known: with user
\* input the target is selected (the target with the chosen id, or the
\* target selected before when no target has that id) and
\* async_send_tfa_code is awaited; without it, or with no target selected,
\* the form is shown.
SelectAndSend(fl, user_input) ==
    IF user_input = {}
    THEN ShowForm(fl, StepId(fl, "tfa_select"), "none")
    ELSE LET selected_key == TheValue(user_input)
             fl1 == [fl EXCEPT !.selected_tfa_target =
                        IF \E t \in fl.tfa_targets : t.id = selected_key
                        THEN {CHOOSE t \in fl.tfa_targets : t.id = selected_key}
                        ELSE @]
         IN  IF fl1.selected_tfa_target = {}
             THEN ShowForm(fl1, StepId(fl, "tfa_select"), "none")
             ELSE Await(fl1, "send_tfa_code", user_input)

\* async_step_tfa_select and async_step_reauth_tfa_select up to their
\* first await or their return: the targets are fetched only when the
\* flow holds none.
AsyncStepTfaSelect(fl, user_input) ==
    IF fl.authenticator = {}
    THEN AbortResult(fl, "unknown")
    ELSE IF fl.tfa_targets = {}
         THEN Await(fl, "get_tfa_options", user_input)
         ELSE SelectAndSend(fl, user_input)

\* async_step_tfa_code and async_step_reauth_tfa_code up to their await
\* or their return.
AsyncStepTfaCode(fl, user_input) ==
    IF fl.authenticator = {}
    THEN AbortResult(fl, "unknown")
    ELSE IF user_input = {}
         THEN ShowForm(fl, StepId(fl, "tfa_code"), "none")
         ELSE Await(fl, "verify_tfa_code", user_input)

\* async_init_session is answered: the credentials are submitted, or the
\* form is shown with the error.
InitSessionAnswered ==
    /\ flow.pc = "init_session"
    /\ \E out \in {"ok"} \cup LoginErrors :
        flow' = IF out = "ok"
                THEN Await(flow, "submit_credentials", flow.input)
                ELSE ShowForm(flow, StepId(flow, "user"), LoginError(out))
    /\ UNCHANGED <<beside_config, issued, entries>>

\* Mutant: when the second factor is required the code form is shown at
\* once, no target being selected and no code sent.
SubmitCredentialsSkipsSend(fl, out) ==
    IF out = "tfa_required" THEN AsyncStepTfaCode(TfaRequired(fl), {})
    ELSE IF out = "ok" THEN Await(fl, "complete_login", fl.input)
    ELSE ShowForm(fl, StepId(fl, "user"), LoginError(out))

\* The handler after the answer of async_submit_credentials: it goes on in
\* the target step when the second factor is required, awaits
\* _async_complete_login when it is not, or shows the form with the error.
SubmitCredentials(fl, out) ==
    IF out = "tfa_required" THEN AsyncStepTfaSelect(TfaRequired(fl), {})
    ELSE IF out = "ok" THEN Await(fl, "complete_login", fl.input)
    ELSE ShowForm(fl, StepId(fl, "user"), LoginError(out))

\* async_submit_credentials is answered.
SubmitCredentialsAnswered ==
    /\ flow.pc = "submit_credentials"
    /\ \E out \in SubmitOutcomes : flow' = SubmitCredentials(flow, out)
    /\ UNCHANGED <<beside_config, issued, entries>>

\* Mutant: the entry's data is built from the flow's fields alone, as in
\* the setup flow, with no account selected.
ReauthFlowDataRebuilt(entry_data, entered, fl, n) ==
    [username |-> TheValue(fl.username), password |-> TheValue(fl.password),
     access_token |-> AccessToken(n),
     refresh_token |-> RefreshToken(n),
     cookies |-> n,
     account_number |-> 0, meter_number |-> 0, service_address |-> 0]

\* new_data of the reauth steps: {**reauth_entry.data, ...} with the n-th
\* token pair, which the step holds in `tokens`, the cookies exported with
\* it and, when they were entered or a code was verified, the flow's
\* username and password.
ReauthFlowData(entry_data, entered, fl, n) ==
    LET d == [entry_data EXCEPT !.access_token = AccessToken(n),
                                !.refresh_token = RefreshToken(n),
                                !.cookies = n]
    IN  IF entered
        THEN [d EXCEPT !.username = TheValue(fl.username),
                       !.password = TheValue(fl.password)]
        ELSE d

\* The login the step completed obtained tokens: the setup flow keeps
\* them in its fields and goes on in async_step_discover_accounts, which
\* builds a client from them and awaits async_get_customer_info; the
\* reauth flow updates its entry with them and ends, its fields unchanged.
TokensObtained(entered) ==
    /\ issued' = issued + 1
    /\ IF IsReauth(flow)
       THEN /\ flow' = Finished(flow, "update_entry")
            /\ entries' = [entries EXCEPT ![flow.entry_index] =
                                ReauthFlowData(@, entered, flow, issued')]
       ELSE /\ flow' = Await([flow EXCEPT !.access_token = {AccessToken(issued')},
                                         !.refresh_token = {RefreshToken(issued')},
                                         !.cookies = {issued'}],
                            "get_customer_info", {})
            /\ entries' = entries

\* _async_complete_login is answered.
CompleteLoginAnswered ==
    /\ flow.pc = "complete_login"
    /\ \E out \in {"ok"} \cup LoginErrors :
        /\ out = "ok" => issued < MaxTokens
        /\ IF out = "ok"
           THEN TokensObtained(flow.entered)
           ELSE /\ flow' = ShowForm(flow, StepId(flow, "user"), LoginError(out))
                /\ UNCHANGED <<issued, entries>>
    /\ UNCHANGED beside_config

\* async_get_tfa_options is answered.  Without targets, or on a
\* GigyaError, which the target step handles itself, the setup flow shows
\* the user form and the reauth flow runs async_step_reauth_confirm again.
\* Another error leaves the target step and is handled by the except
\* clauses of async_step_user or async_step_reauth_confirm when the step
\* was awaited inside their try block.
TfaOptionsAnswered ==
    /\ flow.pc = "get_tfa_options"
    /\ \E out \in {[error |-> "none",
                   targets |-> {[id |-> i, fresh |-> TRUE] : i \in ids}] :
                      ids \in SUBSET (1..MaxTargets)}
                 \cup {[error |-> e, targets |-> {}] :
                         e \in IF flow.login_try THEN LoginErrors ELSE {"GigyaError"}} :
        LET fl == IF out.error = "none"
                  THEN [flow EXCEPT !.tfa_targets = out.targets]
                  ELSE flow
        IN  flow' = IF out.error \notin {"none", "GigyaError"}
                    THEN ShowForm(flow, StepId(flow, "user"), LoginError(out.error))
                    ELSE IF fl.tfa_targets = {}
                    THEN (IF IsReauth(fl)
                          THEN AsyncStepReauthConfirm(fl, {}, entries)
                          ELSE ShowForm(fl, "user", "unknown"))
                    ELSE SelectAndSend(fl, flow.input)
    /\ UNCHANGED <<beside_config, issued, entries>>

\* async_send_tfa_code is answered: the code step runs without user input
\* and shows its form, or the target form is shown with the error.
SendTfaCodeAnswered ==
    /\ flow.pc = "send_tfa_code"
    /\ \E out \in {"ok", "GigyaError"} :
        flow' = IF out = "ok"
                THEN AsyncStepTfaCode([flow EXCEPT !.authenticator =
                                        {[a EXCEPT !.code_sent = TRUE] : a \in @}],
                                      {})
                ELSE ShowForm(flow, StepId(flow, "tfa_select"), "unknown")
    /\ UNCHANGED <<beside_config, issued, entries>>

\* async_verify_tfa_code is answered.
VerifyTfaCodeAnswered ==
    /\ flow.pc = "verify_tfa_code"
    /\ \E out \in {"ok", "TFAVerificationError", "TFAExpiredError", "GigyaError"} :
        /\ out = "ok" => issued < MaxTokens
        /\ IF out = "ok"
           THEN TokensObtained(TRUE)
           ELSE /\ flow' =
                    CASE out = "TFAVerificationError" ->
                            ShowForm(flow, StepId(flow, "tfa_code"), "tfa_failed")
                      [] out = "TFAExpiredError" ->
                            AsyncStepTfaSelect([flow EXCEPT !.tfa_targets = {}], {})
                      [] out = "GigyaError" ->
                            ShowForm(flow, StepId(flow, "tfa_code"), "unknown")
                /\ UNCHANGED <<issued, entries>>
    /\ UNCHANGED beside_config

\* async_get_customer_info is answered: a single account with a meter is
\* selected at once, inside the try block; of several the selection form
\* is shown.
CustomerInfoAnswered ==
    /\ flow.pc = "get_customer_info"
    /\ \E out \in {[error |-> "none", options |-> keys] :
                      keys \in SUBSET (1..MaxAccounts)}
                 \cup {[error |-> e, options |-> {}] :
                         e \in {"InvalidAuthError", "TokenExpiredError",
                                "CannotConnectError", "ApiError", "Exception"}} :
        IF out.error # "none"
        THEN flow' = ShowForm(flow, "user",
                      CASE out.error \in {"InvalidAuthError", "TokenExpiredError"}
                             -> "invalid_auth"
                        [] out.error \in {"CannotConnectError", "ApiError"}
                             -> "cannot_connect"
                        [] OTHER -> "unknown") /\ entries' = entries
        ELSE LET fl == [flow EXCEPT !.account_meter_options = out.options]
             IN  IF out.options = {}
                 THEN flow' = ShowForm(fl, "user", "no_meters_found") /\ entries' = entries
                 ELSE IF Cardinality(out.options) = 1
                      THEN CreateEntryFromSelection(fl, TheValue(out.options), TRUE)
                      ELSE flow' = ShowForm(fl, "select_meter", "none") /\ entries' = entries
    /\ UNCHANGED <<beside_config, issued>>

\* The user starts a setup flow, or a reconfigure flow of an entry, or the
\* coordinator's ConfigEntryAuthFailed starts the reauth flow of an entry:
\* async_step_user, async_step_reconfigure, async_step_reauth, each
\* without user input.
StartFlow ==
    /\ flow.pc \in {"none", "done"}
    /\ \/ flow' = AsyncStepUser([NoFlow EXCEPT !.source = "user"], {})
       \/ \E i \in DOMAIN entries :
            flow' = AsyncStepUser([NoFlow EXCEPT !.source = "reconfigure",
                                                 !.entry_index = i], {})
       \/ \E i \in DOMAIN entries :
            flow' = AsyncStepReauthConfirm([NoFlow EXCEPT !.source = "reauth",
                                                          !.entry_index = i],
                                           {}, entries)
    /\ UNCHANGED <<beside_config, issued, entries>>

\* The values the form shown accepts: credentials, a code, one of the
\* targets offered (vol.In), one of the meters offered (vol.In).
FormInputs(fl) ==
    CASE fl.step_id \in {"tfa_select", "reauth_tfa_select"} ->
            {t.id : t \in fl.tfa_targets}
      [] fl.step_id = "select_meter" -> fl.account_meter_options
      [] OTHER -> {0}

\* The user submits the form shown: the flow manager calls the handler of
\* the form's step with the input, and the handler runs to its first
\* await or to its return.
SubmitForm ==
    /\ flow.pc = "form"
    /\ \E user_input \in FormInputs(flow) :
        CASE flow.step_id = "user" ->
                flow' = AsyncStepUser(flow, {user_input}) /\ entries' = entries
          [] flow.step_id = "reauth_confirm" ->
                /\ flow' = AsyncStepReauthConfirm(flow, {user_input}, entries)
                /\ entries' = entries
          [] flow.step_id \in {"tfa_select", "reauth_tfa_select"} ->
                flow' = AsyncStepTfaSelect(flow, {user_input}) /\ entries' = entries
          [] flow.step_id \in {"tfa_code", "reauth_tfa_code"} ->
                flow' = AsyncStepTfaCode(flow, {user_input}) /\ entries' = entries
          [] flow.step_id = "select_meter" ->
                CreateEntryFromSelection(flow, user_input, FALSE)
    /\ UNCHANGED <<beside_config, issued>>

\* The user closes the dialog of the flow.
CloseFlow ==
    /\ flow.pc = "form"
    /\ flow' = NoFlow
    /\ UNCHANGED <<beside_config, issued, entries>>

\* The client of an entry's coordinator refreshes its tokens and reports
\* them through _token_update_callback.
TokenUpdateStep ==
    /\ issued < MaxTokens
    /\ issued' = issued + 1
    /\ \E i \in DOMAIN entries :
        entries' = [entries EXCEPT ![i] =
                        TokenUpdateCallback(@, AccessToken(issued'), RefreshToken(issued'))]
    /\ UNCHANGED <<beside_config, flow>>

\* The coordinator of an entry starts to re-authenticate:
\* _async_attempt_reauth reads the username and the password of the entry
\* and, when it finds both, awaits auth.async_login with them.  (Without
\* them it returns False at once and nothing changes.)
AutomaticReauthStarted ==
    /\ \E i \in DOMAIN entries \ relogin :
        /\ HasCredentials(entries[i])
        /\ relogin' = relogin \cup {i}
    /\ UNCHANGED <<core, entry, client, issued, reauths, logins, writes, locals,
                   data, previous, refreshed, options, write_modes, entries, flow>>

\* auth.async_login is answered: after a login that succeeded
\* _async_attempt_reauth reads the data of the entry again, as the steps
\* run in the meantime left it, and writes it back with the new tokens
\* and cookies.
AutomaticReauthAnswered ==
    /\ \E i \in relogin : \E login \in LoginOutcomes :
        /\ login = "ok" => issued < MaxTokens
        /\ issued' = IF login = "ok" THEN issued + 1 ELSE issued
        /\ entries' = [entries EXCEPT ![i] = ReauthData(@, login, issued')]
        /\ relogin' = relogin \ {i}
    /\ UNCHANGED <<core, entry, client, reauths, logins, writes, locals, data,
                   previous, refreshed, options, write_modes, flow>>

\* The domain has no entry, or the entry of account 1 with or without
\* stored credentials.
ConfigFlowInit ==
    /\ today = FirstToday
    /\ tz = 0 - TzWest
    /\ upstream = {}
    /\ store = {}
    /\ pc = "idle"
    /\ yesterday = FirstToday - 1
    /\ calls = <<>>
    /\ last_stat = {}
    /\ window = NoWindow
    /\ intervals = <<>>
    /\ batch = <<>>
    /\ result = "none"
    /\ in_flight = 0
    /\ skipped = FALSE
    /\ entry = ConfigEntryData(TRUE, TRUE)
    /\ NewCoordinator
    /\ options = NoOptions
    /\ write_modes = {}
    /\ entries \in {<<>>, <<ConfigEntryData(TRUE, TRUE)>>, <<ConfigEntryData(FALSE, FALSE)>>}
    /\ flow = NoFlow
    /\ relogin = {}

\* An awaited call of a handler is answered and the handler runs on to its
\* next await or to its return.
HandlerStep ==
    \/ InitSessionAnswered
    \/ SubmitCredentialsAnswered
    \/ CompleteLoginAnswered
    \/ TfaOptionsAnswered
    \/ SendTfaCodeAnswered
    \/ VerifyTfaCodeAnswered
    \/ CustomerInfoAnswered

ConfigFlowNext ==
    \/ StartFlow
    \/ SubmitForm
    \/ CloseFlow
    \/ HandlerStep
    \/ TokenUpdateStep
    \/ AutomaticReauthStarted
    \/ AutomaticReauthAnswered

ConfigFlowSpec == ConfigFlowInit /\ [][ConfigFlowNext]_vars

\* Every call a handler awaits is answered.
ConfigFlowFairSpec == ConfigFlowSpec /\ WF_vars(HandlerStep)


\* ------------------------------------------------------- claim helpers

ReconcilerSites == {"backfill", "update"}

\* The reconciler's call of this run, if it has made one.
ReconcilerCalls == {c \in Range(calls) : c.site \in ReconcilerSites}

Starts(points) == {p.start : p \in points}

RECURSIVE SumOfStates(_)
SumOfStates(points) ==
    IF points = {} THEN 0
    ELSE LET p == CHOOSE x \in points : TRUE
         IN  p.state + SumOfStates(points \ {p})

RECURSIVE SumOfConsumption(_)
SumOfConsumption(readings) ==
    IF readings = {} THEN 0
    ELSE LET r == CHOOSE x \in readings : TRUE
         IN  r.consumption + SumOfConsumption(readings \ {r})

\* The dates a data date is drawn from in the relational claims.
Dates == (FirstToday - 2)..(FirstToday + MaxDays)

\* C1: the cumulative sum of the persisted series never decreases in
\* timestamp order; every point of a persisted batch has a sum at least the
\* sum of the last row read before it and of the point before it in the batch.
C1_SumNonDecreasing ==
    /\ \A p, q \in store : p.start <= q.start => p.sum <= q.sum
    /\ \A i \in 1..Len(batch) :
        /\ \A l \in last_stat : batch[i].sum >= l.sum
        /\ i > 1 => batch[i].sum >= batch[i - 1].sum

\* A batch of two points, one with a positive delta, appended to a series
\* whose last sum is positive.
C1_Witness ==
    /\ Len(batch) >= 2
    /\ \E l \in last_stat : l.sum > 0
    /\ \E i \in 1..Len(batch) : batch[i].state > 0
    /\ Range(batch) \subseteq store

\* C2: once _insert_statistics has completed for data date D with no failed
\* fetch, running it again for D on the same day with the same upstream
\* readings leaves the series as it is and persists no point whose start is
\* already stored.
C2_ReconcileTwice ==
    ( /\ pc = "idle"
      /\ result = "data"
      /\ today = yesterday + 1
      /\ \A c \in ReconcilerCalls : c.outcome = "ok" )
    => /\ InsertStatistics(store, upstream, yesterday, today, tz) = store
       /\ \A l \in GetLastStatistics(store) :
            ~UpToDate(l, yesterday, tz) =>
                Starts(Range(UpdateBatch(upstream, l, yesterday, tz))) \cap Starts(store) = {}

\* A first run that persisted a batch has completed, and the day has not
\* changed.
C2_Witness ==
    /\ pc = "idle"
    /\ result = "data"
    /\ today = yesterday + 1
    /\ \A c \in ReconcilerCalls : c.outcome = "ok"
    /\ Len(batch) >= 2
    /\ Range(batch) \subseteq store

\* C3: from any persisted series, the incremental update for D1 followed by
\* the one for D2 > D1 yields the same rows (start, delta, sum) as the
\* single update for D2.
C3_ChunkingIndependent ==
    store # {} =>
        \A d1, d2 \in Dates :
            d1 < d2 =>
                UpdateStatistics(UpdateStatistics(store, upstream, d1, tz), upstream, d2, tz)
                    = UpdateStatistics(store, upstream, d2, tz)

\* Both chunks append something.
C3_Witness ==
    /\ store # {}
    /\ \E d1, d2 \in Dates :
        /\ d1 < d2
        /\ UpdateStatistics(store, upstream, d1, tz) # store
        /\ UpdateStatistics(UpdateStatistics(store, upstream, d1, tz), upstream, d2, tz)
              # UpdateStatistics(store, upstream, d1, tz)
        /\ \E p \in UpdateStatistics(store, upstream, d1, tz) \ store : p.state > 0


\* The local calendar date of a persisted row, spelled out.
LocalDateOfRow(p) == (p.start + tz * 60) \div 1440

\* C4: when the local date of the last persisted row is at or past the
\* data date, the reconciler makes no client call and persists nothing: the
\* series is unchanged and the cycle returns its data.
C4_NoOpWhenCovered ==
    [][ ( /\ pc = "insert"
          /\ pc' # "insert"
          /\ \E p \in store :
                /\ \A q \in store : q.start <= p.start
                /\ LocalDateOfRow(p) >= yesterday )
        => /\ store' = store
           /\ calls' = calls
           /\ batch' = <<>>
           /\ pc' = "idle"
           /\ result' = "data" ]_vars

\* The reconciler has returned because the last row covers the data date.
C4_Witness ==
    /\ pc = "idle"
    /\ result = "data"
    /\ ReconcilerCalls = {}
    /\ \E l \in last_stat : LocalDateOfRow(l) >= yesterday /\ l.sum > 0

\* C5: an incremental update past the up-to-date check requests the dates
\* from the day after the last covered date to the data date, starts its
\* running sum at the last persisted sum, and persists only points later than
\* the last persisted row, in ascending order.
C5_GapOnly ==
    \A c \in ReconcilerCalls :
        c.site = "update" =>
            \E l \in last_stat :
                /\ LocalDateOfRow(l) < yesterday
                /\ c.start = LocalDateOfRow(l) + 1
                /\ c.end = yesterday
                /\ batch # <<>> => batch[1].sum = l.sum + batch[1].state
                /\ \A i \in 1..Len(batch) :
                    /\ batch[i].start > l.start
                    /\ i > 1 => batch[i].start > batch[i - 1].start
                /\ \A r \in Range(intervals) :
                    /\ c.start <= r.timestamp \div 1440
                    /\ r.timestamp \div 1440 <= c.end
                /\ Range(batch) \subseteq store

\* An update has appended two points to a series with a positive sum.
C5_Witness ==
    /\ \E c \in ReconcilerCalls : c.site = "update" /\ c.outcome = "ok"
    /\ Len(batch) >= 2
    /\ batch[1].state > 0
    /\ \E l \in last_stat : l.sum > 0

\* C6: the cumulative sum of every persisted row is the sum of the hourly
\* deltas of all persisted rows up to it.
C6_SumIsSumOfDeltas ==
    \A p \in store : p.sum = SumOfStates({q \in store : q.start <= p.start})

\* The series holds a backfilled batch and an appended one, with positive
\* deltas in both.
C6_Witness ==
    /\ \E c \in ReconcilerCalls : c.site = "update" /\ c.outcome = "ok"
    /\ batch # <<>>
    /\ \E i \in 1..Len(batch) : batch[i].state > 0
    /\ \E l \in last_stat : l.sum > 0
    /\ Cardinality(store) >= 3

\* C7: backfill runs only on an empty series; it requests the 7 days
\* today-7 .. today-1 of the day it makes the request on, and when the
\* fetch succeeds it persists exactly the hourly points of the readings of
\* those days, in ascending order, the running sum starting at zero.
C7_Backfill ==
    [][ /\ (pc # "backfill" /\ pc' = "backfill")
            => /\ store = {}
               /\ window' = <<today - 7, today - 1>>
        /\ (pc = "backfill" /\ pc' # "backfill")
            => LET c == Last(calls')
               IN  /\ store = {}
                   /\ c.site = "backfill"
                   /\ c.start = window[1]
                   /\ c.end = window[2]
                   /\ c.end - c.start = 6
                   /\ c.outcome = "ok" =>
                        /\ Range(intervals') =
                             {r \in upstream : /\ c.start <= r.timestamp \div 1440
                                               /\ r.timestamp \div 1440 <= c.end}
                        /\ store' = Range(batch')
                        /\ SumOfStates(store') = SumOfConsumption(Range(intervals'))
                        /\ \A i \in 1..Len(batch') :
                            /\ i = 1 => batch'[i].sum = batch'[i].state
                            /\ i > 1 => /\ batch'[i].start > batch'[i - 1].start
                                        /\ batch'[i].sum = batch'[i - 1].sum + batch'[i].state ]_vars

\* A backfill has persisted an initial series of at least two points.
C7_Witness ==
    /\ \E c \in ReconcilerCalls : c.site = "backfill" /\ c.outcome = "ok"
    /\ Len(batch) >= 2
    /\ store = Range(batch)
    /\ \E i \in 1..Len(batch) : batch[i].state > 0

\* The readings of the fetch result that fall in the hour starting at the
\* UTC time start.
ReadingsOfHour(start) ==
    {r \in Range(intervals) :
        /\ start <= r.timestamp - tz * 60
        /\ r.timestamp - tz * 60 < start + 60}

\* C8: a batch has at most one point per hour, every point starts on the
\* hour, its delta is the total consumption of the fetched readings of that
\* hour, and the deltas add up to the total consumption fetched.
C8_HourBuckets ==
    /\ \A i, j \in 1..Len(batch) : i # j => batch[i].start # batch[j].start
    /\ \A i \in 1..Len(batch) :
        /\ batch[i].start % 60 = 0
        /\ ReadingsOfHour(batch[i].start) # {}
        /\ batch[i].state = SumOfConsumption(ReadingsOfHour(batch[i].start))
    /\ \A r \in Range(intervals) :
        \E i \in 1..Len(batch) : r \in ReadingsOfHour(batch[i].start)
    /\ SumOfStates(Range(batch)) = SumOfConsumption(Range(intervals))

\* Two readings of one hour have been summed into one point.
C8_Witness ==
    \E i \in 1..Len(batch) :
        /\ Cardinality(ReadingsOfHour(batch[i].start)) >= 2
        /\ \A r \in ReadingsOfHour(batch[i].start) : r.consumption > 0


\* C9: whatever error the reconciler's fetch raises, the cycle still
\* returns its data and nothing is persisted.
C9_ReconcilerErrorsSwallowed ==
    \A c \in ReconcilerCalls :
        c.outcome # "ok" => /\ pc = "idle"
                            /\ result = "data"
                            /\ batch = <<>>

\* C10: an empty result of the reconciler's fetch changes nothing: no row
\* is persisted, the last row of the series is the same, and the cycle
\* returns its data.
C10_EmptyFetchNoOp ==
    [][ ( /\ pc \in ReconcilerSites
          /\ pc' \notin ReconcilerSites
          /\ Last(calls').outcome = "ok"
          /\ intervals' = <<>> )
        => /\ store' = store
           /\ batch' = <<>>
           /\ GetLastStatistics(store') = GetLastStatistics(store)
           /\ pc' = "idle"
           /\ result' = "data" ]_vars

\* An incremental update of a series with a positive sum has fetched an
\* empty gap.
C10_Witness ==
    /\ pc = "idle"
    /\ result = "data"
    /\ \E c \in ReconcilerCalls : c.site = "update" /\ c.outcome = "ok"
    /\ intervals = <<>>
    /\ \E l \in last_stat : l.sum > 0 /\ l \in store


\* ------------------------------------------------------------------ C11

\* C11: no partial batch is written.  In every cycle, retried or not, the
\* recorder is called at most once; while the cycle is in flight (and can
\* still be abandoned) it has not been called; a run whose reconciler fetch
\* raised has not called it; and a call hands over the complete batch: the
\* hourly rows of every reading of the fetched range, all of them in the
\* store afterwards.
C11_NoPartialBatch ==
    /\ [](/\ writes <= 1
          /\ pc # "idle" => writes = 0
          /\ (\E c \in ReconcilerCalls : c.outcome # "ok") => writes = 0 /\ batch = <<>>)
    /\ [][/\ store' # store => writes' = writes + 1
          /\ writes' = writes + 1 =>
                LET c == Last(calls')
                    fetched == GetIntervalUsage(upstream, c.start, c.end)
                IN  /\ c.site \in ReconcilerSites /\ c.outcome = "ok"
                    /\ intervals' = fetched
                    /\ \A i \in Range(fetched) :
                          \E p \in Range(batch') :
                              p.start = AsUtc(HourStart(i.timestamp), tz)
                    /\ Range(batch') \subseteq store'
                    /\ pc' = "idle" /\ result' = "data"]_vars

\* A cycle that was retried after a re-authentication has written its batch.
C11_Witness ==
    /\ pc = "idle"
    /\ reauths >= 1
    /\ writes = 1
    /\ Len(batch) >= 2


\* ------------------------------------------------------------------ C12

\* The entry holds a username and a password.
CredentialsStored == entry.username /\ entry.password

\* C12: with stored credentials a cycle calls _async_attempt_reauth at most
\* once, so the fetch is retried at most once and the cycle ends after a
\* bounded number of client calls.  (Violated: the retry is a new run of
\* _async_update_data with the same except clause, which re-authenticates
\* and retries again whenever the API answers token-expired again.)
C12_OneReauthOneRetry == CredentialsStored => reauths <= 1


\* ------------------------------------------------------------------ C13

PrimarySites == {"daily", "monthly"}

\* C13: with stored credentials, a cycle that a primary fetch ended in
\* auth_failed has attempted the automatic re-authentication and made its
\* login first, after an invalid-auth error as after a token-expired error.
\* (Violated: `except InvalidAuthError` raises ConfigEntryAuthFailed at
\* once.)
C13_ReauthBeforeAuthFailed ==
    (/\ pc = "idle"
     /\ result = "auth_failed"
     /\ CredentialsStored
     /\ calls # <<>>
     /\ Last(calls).site \in PrimarySites
     /\ Last(calls).outcome \in {"InvalidAuthError", "TokenExpiredError"})
    => reauths >= 1 /\ logins >= 1


\* ------------------------------------------------------------------ C14

\* The step in which a client call raises the error class err.
Raises(err) ==
    /\ Len(calls') = Len(calls) + 1
    /\ Last(calls').outcome = err

\* The step in which the login awaited by _async_attempt_reauth is answered.
ReauthAttempted == pc = "reauth" /\ reauths' = reauths + 1

\* The entry's tokens and the client are as they were, or they hold the
\* token pair the client reported through the token callback during the
\* call of the step.
OnlyReportedTokens ==
    \/ entry' = entry /\ client' = client
    \/ /\ issued' = issued + 1
       /\ Len(calls') = Len(calls) + 1
       /\ entry' = [entry EXCEPT !.access_token = AccessToken(issued'),
                                 !.refresh_token = RefreshToken(issued')]
       /\ client' = {[access_token |-> AccessToken(issued'),
                      refresh_token |-> RefreshToken(issued')]}

\* The step in which a client call raises an authentication error: an
\* invalid-auth error or a token-expired error.
RaisesAuthError == Raises("InvalidAuthError") \/ Raises("TokenExpiredError")

\* C14 as stated: when the username or the password is missing, an
\* invalid-auth error and a token-expired error end the cycle in
\* auth_failed in the step in which they are raised, with no login of the
\* authenticator, no retry (no further client call) and the entry's data
\* and the client as they were.
\* (Violated: tokens the client reported during the call that then raised
\* the error have been persisted.)
C14_NothingChanged ==
    /\ [](~CredentialsStored => logins = 0 /\ pc # "reauth")
    /\ [][(~CredentialsStored /\ RaisesAuthError)
          => /\ pc' = "idle"
             /\ result' = "auth_failed"
             /\ logins' = logins
             /\ entry' = entry
             /\ client' = client]_vars

\* C14, amended: when the username or the password is missing, an
\* invalid-auth error and a token-expired error end the cycle in
\* auth_failed in the step in which they are raised, with no login of the
\* authenticator and no retry: the login is never awaited and the next
\* client call belongs to a new cycle; the entry's data and the client
\* change only by a token pair the client reported before the call raised.
C14_NoCredentials ==
    /\ [](~CredentialsStored => logins = 0 /\ pc # "reauth")
    /\ [][(~CredentialsStored /\ RaisesAuthError)
          => /\ pc' = "idle"
             /\ result' = "auth_failed"
             /\ logins' = logins
             /\ OnlyReportedTokens]_vars

\* A token-expired error was handled with a username but no password.
C14_Witness ==
    /\ pc = "idle"
    /\ result = "auth_failed"
    /\ entry.username /\ ~entry.password
    /\ reauths = 1
    /\ Last(calls).outcome = "TokenExpiredError"


\* ------------------------------------------------------------------ C15

\* C15: with stored credentials, a re-authentication whose login obtains no
\* tokens (whatever it raised) ends the cycle in auth_failed after that one
\* login, makes no further client call, and leaves the entry's tokens and
\* cookies and the client as they were.
C15_ReauthFailed ==
    [][(ReauthAttempted /\ CredentialsStored /\ issued' = issued)
       => /\ pc' = "idle"
          /\ result' = "auth_failed"
          /\ logins' = logins + 1
          /\ calls' = calls
          /\ entry' = entry
          /\ client' = client]_vars

\* The second login of a cycle failed after the first had stored new
\* tokens and cookies.
C15_Witness ==
    /\ pc = "idle"
    /\ result = "auth_failed"
    /\ CredentialsStored
    /\ logins = 2
    /\ entry.cookies >= 1
    /\ client = {DompowerClient(entry.access_token, entry.refresh_token)}


\* ------------------------------------------------------------------ C16

TransientErrors == {"CannotConnectError", "ApiError"}

\* C16 as stated: a connectivity error or another API error on a primary
\* interval fetch ends the cycle at once with a transient failure: no
\* re-authentication, no login, no further client call, the client, the
\* entry and the coordinator's data as they were; the next tick can fire,
\* and a cycle all of whose client calls succeed returns a FetchResult.
\* (Violated: tokens the client reported during the call that then raised
\* the error have been persisted.)
C16_NothingChanged ==
    /\ []((pc = "idle" /\ result = "update_failed") => ENABLED TickStep)
    /\ []((/\ pc = "idle"
           /\ calls # <<>>
           /\ \A c \in Range(calls) : c.outcome = "ok")
          => result = "data" /\ data # {})
    /\ [][(/\ \E err \in TransientErrors : Raises(err)
           /\ Last(calls').site \in PrimarySites)
          => /\ pc' = "idle"
             /\ result' = "update_failed"
             /\ reauths' = reauths
             /\ logins' = logins
             /\ entry' = entry
             /\ client' = client
             /\ data' = data]_vars

\* C16, amended: a connectivity error or another API error on a primary
\* interval fetch ends the cycle at once with a transient failure: no
\* re-authentication, no login, no further client call, the coordinator's
\* data as they were, the entry's tokens and the client changed only by a
\* token pair the client reported before the call raised; the next tick
\* can fire, and a cycle all of whose client calls succeed returns a
\* FetchResult.
C16_TransientFailure ==
    /\ []((pc = "idle" /\ result = "update_failed") => ENABLED TickStep)
    /\ []((/\ pc = "idle"
           /\ calls # <<>>
           /\ \A c \in Range(calls) : c.outcome = "ok")
          => result = "data" /\ data # {})
    /\ [][(/\ \E err \in TransientErrors : Raises(err)
           /\ Last(calls').site \in PrimarySites)
          => /\ pc' = "idle"
             /\ result' = "update_failed"
             /\ reauths' = reauths
             /\ logins' = logins
             /\ OnlyReportedTokens
             /\ data' = data]_vars

\* A cycle that fetched the month to date returned a FetchResult after the
\* previous cycle had failed transiently.
C16_Witness ==
    /\ pc = "idle"
    /\ result = "data"
    /\ previous = "update_failed"
    /\ \E c \in Range(calls) : c.site = "monthly"


\* ------------------------------------------------------------------ C17

\* C17: token rotation is persisted immediately.  In every state, hence
\* before the next client call, the entry holds exactly the access and
\* refresh token of the latest pair issued, whether the client reported it
\* through the callback or a re-authentication obtained it, and a client
\* that exists holds the same pair; a coordinator built after a restart
\* sets its client up from that pair.
C17_TokensPersisted ==
    /\ [](/\ entry.access_token = AccessToken(issued)
          /\ entry.refresh_token = RefreshToken(issued)
          /\ client # {} =>
                client = {DompowerClient(AccessToken(issued), RefreshToken(issued))})
    /\ [][(client = {} /\ client' # {})
          => client' = {DompowerClient(AccessToken(issued), RefreshToken(issued))}]_vars

\* After a re-authentication and a later rotation inside the client, the
\* coordinator was rebuilt and has set up its client for its first cycle.
C17_Witness ==
    /\ issued = 2
    /\ entry.cookies = 1
    /\ previous = "none"
    /\ pc = "daily"
    /\ calls = <<>>
    /\ reauths = 0
    /\ client = {DompowerClient(AccessToken(2), RefreshToken(2))}


\* ------------------------------------------------------------------ C18

\* C18: a bill-forecast fetch that raises, whatever the error class, does
\* not end the cycle: the interval fetches having succeeded, the cycle goes
\* on to the statistics without a forecast, neither failed nor
\* re-authenticating.  (Violated: only ApiError is caught around the
\* forecast fetch.)
C18_ForecastFailureTolerated ==
    (/\ calls # <<>>
     /\ Last(calls).site = "forecast"
     /\ Last(calls).outcome # "ok")
    => pc = "insert" /\ result = "none"


\* ------------------------------------------------------------------ C19

Failures == {"auth_failed", "update_failed"}

\* A cycle ends in a failure after a refresh has returned data: every sensor
\* reads the value it read before.
FailureKeepsValues ==
    [][(pc # "idle" /\ pc' = "idle" /\ result' \in Failures /\ refreshed)
       => /\ data' # {}
          /\ \A key \in SensorKeys : NativeValue(key, data') = NativeValue(key, data)]_vars

\* The sensors that show a figure of the bill forecast and have no value
\* without one; the time-of-use sensor is not among them, it reads "No".
ForecastFigures ==
    {"last_bill_charges", "last_bill_usage", "current_period_usage",
     "effective_rate", "billing_period_start", "billing_period_end"}

\* The value of the sensor is one the FetchResult itself leaves absent: the
\* latest interval of a data date without readings, a figure of a bill
\* forecast that was not obtained, the derived rate of a forecast that
\* has none.
AbsentInData(key) ==
    /\ data # {}
    /\ LET d == CHOOSE x \in data : TRUE
       IN  \/ key = "latest_interval_usage" /\ d.latest_interval = {}
           \/ key \in ForecastFigures /\ d.bill_forecast = {}
           \/ /\ key = "effective_rate"
              /\ \E f \in d.bill_forecast : f.derived_rate = {}

\* C19 as stated: failing cycles leave the sensors' values unchanged, and a
\* sensor has no value only when no refresh has completed successfully.
\* (Violated: after a successful refresh the latest-interval sensor has no
\* value when the data date has no readings, and the sensors of the
\* bill-forecast figures have none when the forecast was not obtained.)
C19_NoValueOnlyBeforeFirstRefresh ==
    /\ FailureKeepsValues
    /\ [](\A key \in SensorKeys : NativeValue(key, data) = {} => ~refreshed)

\* C19, amended: failing cycles leave the sensors' values unchanged; a
\* sensor has no value exactly when no refresh has completed successfully
\* or its value is absent in the last FetchResult itself; the usage, cost
\* and time-of-use sensors have a value after every successful refresh,
\* the time-of-use sensor reading "No" without a forecast.
C19_LastDataReadable ==
    /\ FailureKeepsValues
    /\ [](refreshed <=> data # {})
    /\ [](\A key \in SensorKeys :
            NativeValue(key, data) = {} <=> (~refreshed \/ AbsentInData(key)))
    /\ [](refreshed =>
            /\ \A key \in {"daily_usage", "monthly_usage", "daily_cost",
                             "monthly_cost", "is_time_of_use"} :
                    NativeValue(key, data) # {}
            /\ (\A d \in data : d.bill_forecast = {})
                    => NativeValue("is_time_of_use", data) = {"No"})

\* Two cycles in a row have failed after a refresh returned data; the daily
\* usage is still read.
C19_Witness ==
    /\ pc = "idle"
    /\ refreshed
    /\ previous \in Failures
    /\ result \in Failures
    /\ NativeValue("daily_usage", data) = {2 * MaxCons}
    /\ NativeValue("latest_interval_usage", data) = {MaxCons}


\* ------------------------------------------------------------------ C20

\* The step requests readings or a forecast of the utility, writes the
\* entry's tokens or writes statistics.
Acts ==
    \/ Len(calls') > Len(calls)
    \/ entry' # entry
    \/ store' # store

\* C20: at most one refresh is in flight at any time, and one is in flight
\* exactly while _async_update_data is between its entry and its return or
\* raise, the re-authentication and the retry included; a refresh starts
\* only when none is in flight; a tick that fires during a refresh is
\* skipped and changes nothing of the refresh; every client call, token
\* write and statistics write is a step of the one refresh in flight, and
\* the client calls of a run follow one another in one sequence.
C20_SingleRefresh ==
    /\ [](in_flight \in {0, 1})
    /\ [](in_flight = 0 <=> pc = "idle")
    /\ [][/\ in_flight' > in_flight => in_flight = 0
          /\ (skipped' /\ ~skipped) =>
                /\ in_flight = 1
                /\ UNCHANGED <<in_flight, pc, yesterday, calls, store, entry,
                               client, locals, data>>
          /\ Acts => in_flight = 1
          /\ Len(calls') > Len(calls) =>
                calls' = Append(calls, Last(calls'))]_vars

\* A tick fired and was skipped during a refresh that has re-authenticated
\* and is running the update again.
C20_Witness ==
    /\ skipped
    /\ in_flight = 1
    /\ reauths = 1
    /\ pc \notin {"idle", "daily", "reauth"}
    /\ calls # <<>>


\* ------------------------------------------------------------------ C21

\* The day is the first of a month.
IsFirstOfMonth(d) == \E m \in 1..12 : d % 365 = DaysBefore[m]

\* Day 1 of the month and year of the day d: the latest first of a month
\* that is not after d.
FirstOfMonthOf(d) ==
    CHOOSE f \in (d - 30)..d :
        /\ IsFirstOfMonth(f)
        /\ \A g \in (f + 1)..d : ~IsFirstOfMonth(g)

\* The FetchResult the coordinator holds.
TheData == CHOOSE d \in data : TRUE

\* C21: for every today the month start is day 1 of the month and year of
\* yesterday and is not after yesterday, where it is computed, where the
\* month-to-date fetch requests it and where the FetchResult reports it.
C21_MonthStart ==
    /\ MonthStart(today) = FirstOfMonthOf(today - 1)
    /\ MonthStart(today) <= today - 1
    /\ \A c \in Range(calls) :
          c.site = "monthly" => c.start = FirstOfMonthOf(yesterday) /\ c.start <= c.end
    /\ data # {} =>
          /\ TheData.month_start_date = FirstOfMonthOf(TheData.data_date)
          /\ TheData.month_start_date <= TheData.data_date

\* On 1 January of the second year the month to date was fetched from
\* 1 December of the first.
C21_Witness ==
    /\ today = 365
    /\ data # {}
    /\ TheData.month_start_date = 334
    /\ TheData.data_date = 364
    /\ \E c \in Range(calls) : c.site = "monthly" /\ c.start = 334 /\ c.end = 364


\* ------------------------------------------------------------------ C22

\* The primary interval fetches of this run, in order.
PrimaryCalls == SelectSeq(calls, LAMBDA c : c.site \in PrimarySites)

\* C22: a cycle that returns data has made one interval fetch in its primary
\* path when yesterday is the first of its month, and then the monthly total
\* and cost are the daily ones; on every other day it has made a second
\* fetch, for the first of yesterday's month up to yesterday.
C22_MonthReusesDaily ==
    (pc = "idle" /\ result = "data") =>
        /\ PrimaryCalls[1] = Call("daily", yesterday, yesterday, "ok")
        /\ IF IsFirstOfMonth(yesterday)
           THEN /\ Len(PrimaryCalls) = 1
                /\ TheData.monthly_total = TheData.daily_total
                /\ TheData.monthly_cost = TheData.daily_cost
           ELSE /\ Len(PrimaryCalls) = 2
                /\ PrimaryCalls[2] =
                      Call("monthly", FirstOfMonthOf(yesterday), yesterday, "ok")

\* On 2 March the cycle returned the usage and cost of 1 March for the day
\* and for the month, after one interval fetch.
C22_Witness ==
    /\ today = 60
    /\ pc = "idle"
    /\ result = "data"
    /\ Len(PrimaryCalls) = 1
    /\ TheData.daily_total = 1
    /\ TheData.monthly_total = 1
    /\ TheData.daily_cost > 0
    /\ TheData.monthly_cost = TheData.daily_cost


\* ------------------------------------------------------------------ C23

\* C23: every interval fetch of a run, primary or of the reconciler, ends on
\* the run's yesterday, the data date; none requests a later date.
\* (Violated: _backfill_statistics reads date.today() again, so when midnight
\* passes during the cycle its window ends on the day after the data date,
\* the day that was today when the cycle began.)
C23_LaggedEverywhere ==
    \A c \in Range(calls) :
        c.site \in PrimarySites \cup ReconcilerSites => c.end = yesterday


\* ------------------------------------------------------------- costs

\* The readings of the data date and of the month to date held by the
\* utility, each with the cost the returned data reports for it.
Costed(d) ==
    {[readings |-> {r \in upstream : DateOf(r.timestamp) = d.data_date},
      cost |-> d.daily_cost],
     [readings |-> {r \in upstream : /\ d.month_start_date <= DateOf(r.timestamp)
                                     /\ DateOf(r.timestamp) <= d.month_end_date},
      cost |-> d.monthly_cost]}

\* The consumption of a set of readings, in kWh.
RECURSIVE Kwh(_)
Kwh(S) ==
    IF S = {} THEN 0
    ELSE LET r == CHOOSE x \in S : TRUE
         IN  r.consumption + Kwh(S \ {r})

\* cents is the amount of mills rounded to 2 decimal places: no cent is
\* nearer, and of two cents equally near it is the even one.
IsRounded(cents, mills) ==
    /\ 10 * cents - mills \in (0 - 5)..5
    /\ 10 * cents - mills \in {0 - 5, 5} => cents % 2 = 0

\* cents is a cent nearest to the amount of mills: no cent is nearer, and
\* of two cents equally near it is either.  round(x, 2) of the double x
\* that the code computes for an amount half-way between two cents gives
\* the one or the other, as x lies below or above the half cent.
IsNearestCent(cents, mills) == 10 * cents - mills \in (0 - 5)..5

\* The rate the options configure, or the default when they configure none.
Configured(value, default) == IF value = {} THEN default ELSE CHOOSE v \in value : TRUE

\* The readings of S whose hour lies in the window [peak_start, peak_end).
Peak(S) ==
    LET ps == Configured(options.peak_start_hour, DEFAULT_PEAK_START_HOUR)
        pe == Configured(options.peak_end_hour, DEFAULT_PEAK_END_HOUR)
    IN  {r \in S : (r.timestamp % MinutesPerDay) \div MinutesPerHour \in ps..(pe - 1)}

\* C24, as stated: in time-of-use mode the cost of a list of readings is
\* the sum of consumption x peak rate over the readings whose hour lies in
\* peak_start..peak_end - 1 and consumption x off-peak rate over the
\* others, rounded to 2 decimal places, for every window.
\* (Violated: the sum is a double.  One kWh at an off-peak rate of 0.155
\* and none at the peak rate cost 0.15, the double nearest to 0.155 being
\* less than 0.155.)
C24_TimeOfUseCost ==
    \A d \in data : \A l \in Costed(d) :
        options.cost_mode = {COST_MODE_TOU} =>
            IsRounded(l.cost,
                Kwh(Peak(l.readings))
                    * Configured(options.peak_rate, DEFAULT_PEAK_RATE)
                + Kwh(l.readings \ Peak(l.readings))
                    * Configured(options.off_peak_rate, DEFAULT_OFF_PEAK_RATE))

\* C24: in time-of-use mode the cost of a list of readings is a cent
\* nearest to the sum of consumption x peak rate over the readings whose
\* hour lies in peak_start..peak_end - 1 and consumption x off-peak rate
\* over the others, for every window: the hour peak_start of a window is
\* billed at the peak rate, the hour peak_end at the off-peak rate.
C24_TimeOfUseCostNearestCent ==
    \A d \in data : \A l \in Costed(d) :
        options.cost_mode = {COST_MODE_TOU} =>
            IsNearestCent(l.cost,
                Kwh(Peak(l.readings))
                    * Configured(options.peak_rate, DEFAULT_PEAK_RATE)
                + Kwh(l.readings \ Peak(l.readings))
                    * Configured(options.off_peak_rate, DEFAULT_OFF_PEAK_RATE))

\* A window 14..19 with one kWh at 14:00 and one at 19:30, at rates of
\* 0.128 and 0.064: the cost is 0.19.
C24_Witness ==
    /\ data # {}
    /\ options = Options({COST_MODE_TOU}, {DEFAULT_FIXED_RATE}, {128}, {64}, {14}, {19})
    /\ upstream = {[timestamp |-> At(yesterday, 14, 0), consumption |-> 1],
                   [timestamp |-> At(yesterday, 19, 30), consumption |-> 1]}
    /\ TheData.daily_cost = 19

\* C25, as stated: in time-of-use mode with peak_start = peak_end the cost
\* is sum(consumption) x off-peak rate rounded to 2 decimal places.
\* (Violated: with the window 19..19 one kWh at an off-peak rate of 0.155
\* costs 0.15.)
C25_EmptyWindow ==
    \A d \in data : \A l \in Costed(d) :
        (/\ options.cost_mode = {COST_MODE_TOU}
         /\ options.peak_start_hour # {}
         /\ options.peak_start_hour = options.peak_end_hour)
        => IsRounded(l.cost,
                Kwh(l.readings) * Configured(options.off_peak_rate, DEFAULT_OFF_PEAK_RATE))

\* C25: in time-of-use mode with peak_start = peak_end every reading is
\* billed at the off-peak rate, whatever its hour: the cost is a cent
\* nearest to sum(consumption) x off-peak rate.
C25_EmptyWindowNearestCent ==
    \A d \in data : \A l \in Costed(d) :
        (/\ options.cost_mode = {COST_MODE_TOU}
         /\ options.peak_start_hour # {}
         /\ options.peak_start_hour = options.peak_end_hour)
        => IsNearestCent(l.cost,
                Kwh(l.readings) * Configured(options.off_peak_rate, DEFAULT_OFF_PEAK_RATE))

\* A window 19..19 with one kWh at 19:00 and one at 19:30: the cost is 0.13.
C25_Witness ==
    /\ data # {}
    /\ options = Options({COST_MODE_TOU}, {DEFAULT_FIXED_RATE}, {128}, {64}, {19}, {19})
    /\ upstream = {[timestamp |-> At(yesterday, 19, 0), consumption |-> 1],
                   [timestamp |-> At(yesterday, 19, 30), consumption |-> 1]}
    /\ TheData.daily_cost = 13

\* The derived rate of the bill forecast of the data d, {} when there is no
\* forecast or the forecast has no derived rate.
DerivedRate(d) ==
    IF d.bill_forecast = {} THEN {}
    ELSE (CHOOSE f \in d.bill_forecast : TRUE).derived_rate

\* C26: in api-estimate mode the cost is rounded(total kWh x derived rate)
\* exactly when a bill forecast exists and its derived rate is positive,
\* and rounded(total kWh x fixed rate) in every other case.
C26_ApiEstimate ==
    \A d \in data : \A l \in Costed(d) :
        options.cost_mode \in {{}, {COST_MODE_API}} =>
            IsRounded(l.cost,
                Kwh(l.readings)
                * (IF \E r \in DerivedRate(d) : r > 0
                   THEN CHOOSE r \in DerivedRate(d) : TRUE
                   ELSE Configured(options.fixed_rate, DEFAULT_FIXED_RATE)))

\* C27, as stated: in fixed-rate mode the cost of a list of readings is
\* sum(consumption) x fixed rate rounded to 2 decimal places, whatever the
\* hours of the readings, the peak settings and the bill forecast.
\* (Violated: one kWh at a fixed rate of 0.155 costs 0.15, and one kWh at
\* 0.005 costs 0.01.)
C27_FixedRate ==
    \A d \in data : \A l \in Costed(d) :
        options.cost_mode = {COST_MODE_FIXED} =>
            IsRounded(l.cost,
                Kwh(l.readings) * Configured(options.fixed_rate, DEFAULT_FIXED_RATE))

\* C27: in fixed-rate mode the cost of a list of readings is a cent
\* nearest to sum(consumption) x fixed rate, whatever the hours of the
\* readings, the peak settings and the bill forecast.
C27_FixedRateNearestCent ==
    \A d \in data : \A l \in Costed(d) :
        options.cost_mode = {COST_MODE_FIXED} =>
            IsNearestCent(l.cost,
                Kwh(l.readings) * Configured(options.fixed_rate, DEFAULT_FIXED_RATE))

\* A fixed rate of 0.128, peak rates configured as zero and a bill forecast
\* with a derived rate of 0.15: one kWh at 19:30 costs 0.13.
C27_Witness ==
    /\ data # {}
    /\ options = Options({COST_MODE_FIXED}, {128}, {0}, {0},
                         {DEFAULT_PEAK_START_HOUR}, {DEFAULT_PEAK_END_HOUR})
    /\ Kwh(upstream) = 1
    /\ DerivedRate(TheData) = {DEFAULT_PEAK_RATE}
    /\ TheData.daily_cost = 13

\* The rate after a rate that is absent or zero has been replaced by its
\* default.
Defaulted(value, default) ==
    IF value = {} \/ value = {0} THEN default ELSE CHOOSE v \in value : TRUE

\* C28: a rate that is absent from the options or configured as zero is
\* replaced by its default (fixed 0.12, peak 0.15, off-peak 0.08) before
\* the cost is computed: in fixed-rate mode, in time-of-use mode, and in
\* api-estimate mode without a bill forecast.
C28_ZeroRateDefaulted ==
    \A d \in data : \A l \in Costed(d) :
        /\ (\/ options.cost_mode = {COST_MODE_FIXED}
            \/ options.cost_mode \in {{}, {COST_MODE_API}} /\ d.bill_forecast = {})
           => IsRounded(l.cost,
                Kwh(l.readings) * Defaulted(options.fixed_rate, DEFAULT_FIXED_RATE))
        /\ options.cost_mode = {COST_MODE_TOU}
           => IsRounded(l.cost,
                Kwh(Peak(l.readings))
                    * Defaulted(options.peak_rate, DEFAULT_PEAK_RATE)
                + Kwh(l.readings \ Peak(l.readings))
                    * Defaulted(options.off_peak_rate, DEFAULT_OFF_PEAK_RATE))

\* C29: the cost of an empty list of readings is 0 under every mode, every
\* rate configuration and every bill forecast.
C29_EmptyCostsNothing ==
    \A d \in data : \A l \in Costed(d) : l.readings = {} => l.cost = 0

\* No reading at all, in fixed-rate mode at 0.128 with a bill forecast.
C29_Witness ==
    /\ data # {}
    /\ upstream = {}
    /\ options = Options({COST_MODE_FIXED}, {128}, {DEFAULT_PEAK_RATE},
                         {DEFAULT_OFF_PEAK_RATE}, {DEFAULT_PEAK_START_HOUR},
                         {DEFAULT_PEAK_END_HOUR})
    /\ DerivedRate(TheData) = {DEFAULT_PEAK_RATE}
    /\ TheData.daily_cost = 0
    /\ TheData.monthly_cost = 0


\* -------------------------------------------- statistics and pricing

\* C30: the persisted statistics do not depend on the pricing options: a
\* change of the options writes no statistics, and whatever the options
\* are, also when they change between or during cycles, a write leaves the
\* series that _insert_statistics computes from the stored rows, the
\* readings of the dates it requested and the time zone alone.
C30_StatisticsIgnorePricing ==
    [][/\ options' # options =>
            /\ store' = store
            /\ batch' = batch
            /\ writes' = writes
       /\ store' # store =>
            store' = AddExternalStatistics(store, ConsumptionStatistics(
                        GetIntervalUsage(upstream, window[1], window[2]),
                        IF last_stat = {} THEN 0 ELSE (CHOOSE l \in last_stat : TRUE).sum,
                        tz))]_vars

\* Statistics were written under two cost modes, and the data of the last
\* refresh carries a cost.
C30_Witness ==
    /\ Cardinality(write_modes) >= 2
    /\ store # {}
    /\ data # {}
    /\ TheData.monthly_cost > 0


\* ------------------------------------------- the order within a cycle

\* A primary fetch of this run of the update raised an error that ends the
\* run: any error of the interval fetches, any error of the bill forecast
\* but an ApiError.
PrimaryFailed ==
    \E c \in Range(calls) :
        \/ c.site \in {"daily", "monthly"} /\ c.outcome # "ok"
        \/ c.site = "forecast" /\ c.outcome \notin {"ok", "ApiError"}

\* The calls of this run begin with the daily fetch, the month-to-date
\* fetch when the month did not start on the data date, and the bill
\* forecast, all completed; only calls of the reconciler follow.
PrimaryCompleted ==
    LET n == IF FetchesMonth(MonthStart(yesterday + 1), yesterday) THEN 3 ELSE 2
    IN  /\ Len(calls) >= n
        /\ calls[1].site = "daily" /\ calls[1].outcome = "ok"
        /\ n = 3 => calls[2].site = "monthly" /\ calls[2].outcome = "ok"
        /\ calls[n].site = "forecast" /\ calls[n].outcome \in {"ok", "ApiError"}
        /\ \A i \in (n + 1)..Len(calls) : calls[i].site \in ReconcilerSites

\* The reconciler has been entered in this run.
ReconcilerEntered ==
    \/ pc \in {"insert", "backfill", "update"}
    \/ last_stat # {}
    \/ batch # <<>>
    \/ writes > 0
    \/ \E c \in Range(calls) : c.site \in ReconcilerSites

\* C31: the reconciler is entered only after the daily fetch, the
\* month-to-date fetch (when needed) and the bill-forecast step of the run
\* have completed; a run whose primary fetch fails never enters it, and
\* the persisted series changes only in a step of the reconciler of a run
\* whose primary fetches completed.
C31_ReconcilerAfterPrimary ==
    /\ [](ReconcilerEntered => PrimaryCompleted)
    /\ [](PrimaryFailed => ~ReconcilerEntered)
    /\ [][store' # store =>
            /\ PrimaryCompleted
            /\ ~PrimaryFailed
            /\ pc \in {"backfill", "update"}]_vars

\* A cycle ended on a failed primary fetch, after an earlier cycle had
\* persisted rows.
C31_Witness ==
    /\ PrimaryFailed
    /\ pc = "idle"
    /\ result = "update_failed"
    /\ store # {}


\* ------------------------------------------- backfill or incremental

\* The step makes the client call of the backfill.
BackfillCalled ==
    /\ Len(calls') = Len(calls) + 1
    /\ calls'[Len(calls')].site = "backfill"

\* The step is the reconciler's read of the last row: the run goes on from
\* _insert_statistics with its calls so far.
LastRowRead ==
    /\ pc = "insert"
    /\ pc' # "insert"
    /\ calls' = calls

\* C32: backfill or incremental update is chosen from the store alone: a
\* run that reaches the reconciler goes to the backfill if and only if the
\* store holds no row at that moment.  So the backfill is called only on an
\* empty store, never again once rows are persisted (also by a new
\* coordinator after a restart), and it is called again by every run that
\* reaches the reconciler while the store is still empty.
C32_BackfillIffStoreEmpty ==
    /\ [](pc = "backfill" => store = {})
    /\ [](pc = "update" => store # {})
    /\ [][LastRowRead => (pc' = "backfill" <=> store = {})]_vars
    /\ [][BackfillCalled => store = {}]_vars

\* The previous cycle returned data without persisting a row (its backfill
\* found no reading or failed with an API error), and this cycle is about
\* to run the backfill again.
C32_Witness ==
    /\ previous = "data"
    /\ store = {}
    /\ pc = "backfill"


\* ------------------------------------------------- the entries' data

\* The account a config entry's data names.
AccountOf(entry_data) ==
    <<entry_data.account_number, entry_data.meter_number, entry_data.service_address>>

\* The step writes rotated credentials: the token callback or the
\* automatic re-authentication of a coordinator (no step of the flow), or a
\* step of the reauth flow.
CredentialsWritten ==
    /\ entries' # entries
    /\ flow' = flow \/ flow.source = "reauth"

\* C33: a write of rotated credentials (token callback, automatic
\* re-authentication, completion of the reauth flow with or without a
\* second factor) adds and removes no entry and leaves the account number,
\* the meter number and the service address of every entry as they were;
\* outside the reauth flow it leaves the username and password too.
C33_RotationKeepsAccount ==
    [][CredentialsWritten =>
        /\ DOMAIN entries' = DOMAIN entries
        /\ \A i \in DOMAIN entries :
            /\ AccountOf(entries'[i]) = AccountOf(entries[i])
            /\ flow' = flow =>
                /\ entries'[i].username = entries[i].username
                /\ entries'[i].password = entries[i].password]_vars

\* The reauth flow of an entry without stored credentials ended after a
\* verified code, with entered credentials and the second token pair
\* issued: the entry holds them and still names account 1.
C33_Witness ==
    /\ flow.source = "reauth"
    /\ flow.result = "update_entry"
    /\ \E a \in flow.authenticator : a.code_sent
    /\ entries[1].access_token = AccessToken(2)
    /\ entries[1].username
    /\ AccountOf(entries[1]) = <<1, 1, 1>>


\* ------------------------------------------------ the reauth flow ends

\* C34: a step of the reauth flow that was called returns a result (a form,
\* an abort or an entry update): a running handler of the reauth flow leads
\* to a state in which no handler is running.
C34_ReauthStepReturns ==
    (flow.source = "reauth" /\ Running) ~> ~Running


\* ------------------------------------- the order of the login steps

\* The step calls async_verify_tfa_code: the handler reaches the await.
VerifyCalled ==
    /\ flow.pc # "verify_tfa_code"
    /\ flow'.pc = "verify_tfa_code"

\* The step calls async_send_tfa_code.
SendCalled ==
    /\ flow.pc # "send_tfa_code"
    /\ flow'.pc = "send_tfa_code"

\* The step of the flow creates or updates an entry.
EntryWritten ==
    /\ flow' # flow
    /\ entries' # entries

\* The entries the step created or changed.
Written == {i \in DOMAIN entries' : i \notin DOMAIN entries \/ entries'[i] # entries[i]}

\* The step is the answer of a completed login or of a verified code, which
\* issued a token pair.
TokensIssuedToFlow ==
    /\ flow.pc \in {"complete_login", "verify_tfa_code"}
    /\ issued' = issued + 1

\* C35: in the setup, reconfigure and reauth flows a code is verified only
\* after a code was sent to a selected target on the flow's authenticator,
\* a code is sent only after the submission of the credentials on that
\* authenticator reported that the second factor is required, and an entry
\* is created or updated only with tokens the flow obtained, by a direct
\* login or, when the second factor was required, after a code was sent
\* and verified: the setup flow's token fields are set only by such an
\* answer, to the pair it issued, and the entry it writes holds that pair;
\* the reauth flow writes its entry in the step of such an answer, with the
\* pair it issued.
C35_LoginStepsOrdered ==
    [][/\ VerifyCalled =>
            /\ \A a \in flow'.authenticator : a.tfa_required /\ a.code_sent
            /\ flow'.authenticator # {}
            /\ flow'.selected_tfa_target # {}
       /\ SendCalled =>
            /\ \A a \in flow'.authenticator : a.tfa_required
            /\ flow'.authenticator # {}
            /\ flow'.selected_tfa_target # {}
       /\ (flow'.access_token # flow.access_token
                \/ flow'.refresh_token # flow.refresh_token) =>
            \/ flow'.access_token = {} /\ flow'.refresh_token = {}
            \/ /\ TokensIssuedToFlow
               /\ flow'.access_token = {AccessToken(issued')}
               /\ flow'.refresh_token = {RefreshToken(issued')}
       /\ EntryWritten =>
            /\ \A a \in flow.authenticator : a.tfa_required => a.code_sent
            /\ flow.authenticator # {}
            /\ \A i \in Written :
                IF IsReauth(flow)
                THEN /\ TokensIssuedToFlow
                     /\ entries'[i].access_token = AccessToken(issued')
                     /\ entries'[i].refresh_token = RefreshToken(issued')
                ELSE /\ flow.access_token # {} /\ flow.refresh_token # {}
                     /\ {entries'[i].access_token} = flow.access_token
                     /\ {entries'[i].refresh_token} = flow.refresh_token]_vars

\* The reauth flow updated its entry with the pair a verified code issued,
\* its own token fields still empty.
C35_ReauthWitness ==
    /\ flow.source = "reauth"
    /\ flow.result = "update_entry"
    /\ flow.access_token = {}
    /\ \E a \in flow.authenticator : a.tfa_required /\ a.code_sent
    /\ entries[flow.entry_index].access_token = AccessToken(issued)
    /\ issued >= 1

\* A setup flow created the first entry after a code was sent and verified.
C35_Witness ==
    /\ flow.source = "user"
    /\ flow.result = "create_entry"
    /\ \E a \in flow.authenticator : a.tfa_required /\ a.code_sent
    /\ flow.selected_tfa_target # {}
    /\ Len(entries) = 1
    /\ {entries[1].access_token} = flow.access_token


\* ---------------------------------- the targets of the second factor

\* C36: whenever the setup flow shows the target selection or has sent a
\* code on the authenticator it holds, the targets it shows and the target
\* the code went to were fetched from that authenticator; none is left
\* from an earlier login attempt of the flow.
C36_TargetsOfHeldAuthenticator ==
    flow.source = "user" =>
        /\ (flow.pc = "form" /\ flow.step_id = "tfa_select") =>
                \A t \in flow.tfa_targets : t.fresh
        /\ (\E a \in flow.authenticator : a.code_sent) =>
                \A t \in flow.selected_tfa_target : t.fresh


\* --------------------------------------------- one entry per account

\* The step selects an account: the only one discovered, or the one the
\* user chose among several.
AccountSelected ==
    /\ flow' # flow
    /\ flow'.unique_id # {}
    /\ \/ /\ flow.pc = "get_customer_info"
          /\ flow'.account_meter_options = flow'.unique_id
       \/ /\ flow.pc = "form"
          /\ flow.step_id = "select_meter"

\* C37: no two entries have the same account number; a setup flow that
\* selects an account which has an entry aborts and creates no entry; a
\* reconfigure flow that selects another account than its entry's aborts
\* and leaves the entries unchanged.
C37_OneEntryPerAccount ==
    /\ [](\A i, j \in DOMAIN entries :
            entries[i].account_number = entries[j].account_number => i = j)
    /\ [][AccountSelected =>
            /\ (/\ flow.source = "user"
                /\ \E i \in DOMAIN entries :
                        {entries[i].account_number} = flow'.unique_id)
                    => flow'.result = "abort" /\ entries' = entries
            /\ (/\ flow.source = "reconfigure"
                /\ {entries[flow.entry_index].account_number} # flow'.unique_id)
                    => flow'.result = "abort" /\ entries' = entries]_vars


\* ------------------------------------------------------ the last hour

\* The readings of S whose hour is 23.
LastHour(S) == {r \in S : (r.timestamp % MinutesPerDay) \div MinutesPerHour = 23}

\* C38: in time-of-use mode, with every window the options flow accepts,
\* the readings of hour 23 are billed at the off-peak rate: the cost of a
\* list of readings is a cent nearest to the sum of their consumption x
\* off-peak rate and of the charge of the other readings by the window.
C38_LastHourOffPeak ==
    \A d \in data : \A l \in Costed(d) :
        options.cost_mode = {COST_MODE_TOU} =>
            LET others == l.readings \ LastHour(l.readings)
                off_peak == Configured(options.off_peak_rate, DEFAULT_OFF_PEAK_RATE)
            IN  IsNearestCent(l.cost,
                    Kwh(LastHour(l.readings)) * off_peak
                    + Kwh(Peak(others))
                        * Configured(options.peak_rate, DEFAULT_PEAK_RATE)
                    + Kwh(others \ Peak(others)) * off_peak)

\* The widest window that ends late, 0..23, with one kWh at 23:00 and one
\* at 19:30, at rates of 0.128 and 0.064: the cost is 0.19, not 0.26.
C38_Witness ==
    /\ data # {}
    /\ options = Options({COST_MODE_TOU}, {DEFAULT_FIXED_RATE}, {128}, {64}, {0}, {23})
    /\ upstream = {[timestamp |-> At(yesterday, 23, 0), consumption |-> 1],
                   [timestamp |-> At(yesterday, 19, 30), consumption |-> 1]}
    /\ TheData.daily_cost = 19
====
